---- MODULE Spec2Model ----
(***************************************************************************)
(* A model of the protocol engine of cdp_ui_testing.                       *)
(*                                                                         *)
(*  - the correlation engine: BaseHandler of main/handlers/base_handler.py *)
(*    (reader loop, pending-request table, send_command);                  *)
(*  - the facade path: BaseHandler.send_request of                         *)
(*    main/handlers/base_save.py (send, then read the next frame);         *)
(*  - the page-load wait: PageHandler.wait_for_page_load of                *)
(*    main/handlers/page_handler.py and of new_main;                       *)
(*  - the DOM-stability wait: PageHandler.wait_for_page_dom_load;          *)
(*  - the element operations of main/handlers/dom_handler.py:              *)
(*    find_element_by_xpath, click_element, insert_text (the last also     *)
(*    as InputHandler has it);                                             *)
(*  - the transport: WebSocketClient of main/driver/web_socket_client.py   *)
(*    (connect, send_message, receive_message, close);                     *)
(*  - BaseHandler._process_message on its own, with the callbacks of its   *)
(*    registry and the keys of its message;                                *)
(*  - PageHandler.navigate;                                                *)
(*  - the loading-frame set of the two waits of PageHandler;               *)
(*  - BaseHandler.send_command step by step, with cancellation;            *)
(*  - navigate with the frames of the page behind it;                      *)
(*  - get_center_coordinates;                                              *)
(*  - the navigation history: navigate_back, navigate_forward and          *)
(*    get_current_url of main/handlers/navigation_handler.py.              *)
(*                                                                         *)
(* Time is abstracted: a timer that is armed may fire at any step.         *)
(***************************************************************************)
EXTENDS Integers, Sequences, FiniteSets, TLC

\* ------------------------------------------------------------------ bounds
\* send_command calls issued in one behaviour.
MaxCalls == 2
\* Callback tasks the reader creates in one behaviour.
MaxStarted == 1

\* Handler objects that share one connection: ChromeDriver.connect builds
\* its handlers on one socket and enables each one's domain.
Handlers == {"PageHandler", "NetworkHandler"}
MethodOf == [h \in Handlers |->
               IF h = "PageHandler" THEN "Page.enable" ELSE "Network.enable"]
\* NetworkHandler.enable is the one caller that registers callbacks.
EventNames == {"Network.requestWillBeSent"}

VARIABLES
    handlers,   \* the handler objects constructed on the connection
    closed,     \* connection.closed
    next_id,    \* next_id[h]: BaseHandler._next_id
    pending,    \* pending[h]: the keys of BaseHandler._pending_requests
    listeners,  \* listeners[h][n]: number of callbacks in _event_listeners[n]
    reader,     \* reader[h]: state of the task running _handle_messages
    calls,      \* the send_command calls, in issue order
    answered,   \* the calls whose command the peer has answered
    started     \* callback tasks created by _process_message: <<h, name>>

engineVars == <<handlers, closed, next_id, pending, listeners, reader, calls,
                answered, started>>

\* The facade path: handlers of base_save.py on one WebSocketClient, and
\* the page-load wait that reads from the same client.
VARIABLES
    request_id,         \* request_id[h]: BaseHandler.request_id
    wire,               \* the commands written to the socket, in order
    reqs,               \* the send_request calls, in issue order
    replied,            \* positions of wire the peer has answered
    waiter,             \* who is blocked in websocket.recv()
    ws_closed,          \* the socket is closed
    wait_pc,            \* position of wait_for_page_load
    active_frames,      \* its local active_frames
    load_event_fired,   \* its local load_event_fired
    expired,            \* time.time() - start_time > timeout
    broke_at            \* the line at which its loop was left

clientVars == <<request_id, wire, reqs, replied, waiter, ws_closed, wait_pc,
                active_frames, load_event_fired, expired, broke_at>>

\* The page-load wait of new_main/handlers/page_handler.py, which reads from
\* its own WebSocketClient, and what each wait has been sent so far.
VARIABLES
    wait_seen,          \* main wait, the frames read so far: "nothing",
                        \* "frames" (only Page.frameStartedLoading and
                        \* Page.frameStoppedLoading), or "mixed"
    nm_pc,              \* position of new_main's wait_for_page_load
    nm_frames,          \* its local active_frames
    nm_expired,         \* time.time() - start_time > timeout
    nm_broke_at,        \* the line at which it left its loop or raised
    nm_seen,            \* as wait_seen, for this wait
    nm_closed           \* its socket is closed

newMainVars == <<nm_pc, nm_frames, nm_expired, nm_broke_at, nm_seen,
                 nm_closed>>

\* wait_for_page_dom_load of main/handlers/page_handler.py.
VARIABLES
    dom_pc,             \* position of the call
    dom_frames,         \* its local active_frames
    dom_activity,       \* its local dom_activity_detected
    dom_load,           \* its local load_event_fired
    dom_expired,        \* now - start_time > timeout
    dom_broke_at,       \* the line at which its loop was left
    quiet_any,          \* ticks since last_activity was set (line 146)
    quiet_tracked,      \* ticks since the last tracked event was read
    dom_calls,          \* calls started so far
    dom_returns         \* what the calls returned: [line, result]

domVars == <<dom_pc, dom_frames, dom_activity, dom_load, dom_expired,
             dom_broke_at, quiet_any, quiet_tracked, dom_calls, dom_returns>>

\* DOMHandler.find_element_by_xpath of main/handlers/dom_handler.py.
VARIABLES
    fx_pc,              \* the command whose response the lookup awaits
    fx_sent,            \* the methods it has sent, in order
    fx_zero,            \* DOM.performSearch was answered resultCount == 0
    fx_doc,             \* `document` is a dict
    fx_node,            \* node_id: 0 stands for None
    fx_ret,             \* what the lookup returned
    fx_late,            \* a command timeout has passed since
                        \* DOM.getSearchResults was sent
    fx_drained          \* frames read by the loop of get_search_results

findVars == <<fx_pc, fx_sent, fx_zero, fx_doc, fx_node, fx_ret, fx_late,
              fx_drained>>

\* DOMHandler.click_element of main/handlers/dom_handler.py.
VARIABLES
    ck_pc,              \* position of the call
    ck_elem,            \* its argument
    ck_stale,           \* the node of the handle no longer resolves
    ck_sent,            \* the commands it has sent and the waits it has
                        \* run, in order
    ck_calls,           \* calls started so far
    ck_returns          \* what the calls returned: [cause, stale, ret]

clickVars == <<ck_pc, ck_elem, ck_stale, ck_sent, ck_calls, ck_returns>>

\* insert_text of DOMHandler (main/handlers/dom_handler.py) and of
\* InputHandler (main/handlers/input_handler.py).
VARIABLES
    in_pc,              \* position of the call
    in_variant,         \* the class whose insert_text runs
    in_node,            \* element.node_id; 0 stands for no element or None
    in_text,            \* its argument `text`
    in_js,              \* the script fast path: "", "ok" or "failed"
    in_input,           \* the keyboard emulation: "", "ok" or "failed"
    in_typed,           \* the characters the keyboard emulation typed
    in_keys,            \* the clearing key events it sent
    in_sent,            \* the commands it sent, in order
    in_ret,             \* what the call returned
    in_calls,           \* calls started so far
    in_field,           \* the content of the field, as its characters
    in_returns          \* what the calls returned and left in the field:
                        \* [text, js, input, field, ret]

insertVars == <<in_pc, in_variant, in_node, in_text, in_js, in_input,
                in_typed, in_keys, in_sent, in_ret, in_calls, in_field,
                in_returns>>

\* WebSocketClient of main/driver/web_socket_client.py.
VARIABLES
    websocket,          \* self.websocket: "None", or a connection that is
                        \* "open", "peer_closed" or "closed" (by close())
    cn_pc,              \* position of connect: "idle" or "loop"
    cn_retries,         \* its argument `retries`
    cn_attempts,        \* calls of websockets.connect it has made
    cn_failed,          \* those that raised
    cn_out,             \* how it ended: "", "returned", "ConnectionError"
    cn_calls,           \* calls of connect started so far
    tp_ops,             \* calls of send_message, receive_message and close
    tp_done             \* what they did: [op, sock, after, wrote, out]

transportVars == <<websocket, cn_pc, cn_retries, cn_attempts, cn_failed,
                   cn_out, cn_calls, tp_ops, tp_done>>

\* The loop of BaseHandler._handle_messages over decoded messages and
\* BaseHandler._process_message (main/handlers/base_handler.py), with the
\* callbacks of the registry and the keys of the message.
VARIABLES
    pm_listeners,       \* self._event_listeners: name -> list of callbacks
    pm_pending,         \* the keys of self._pending_requests
    pm_reader,          \* where the reader task is: "recv" (line 50) or
                        \* "in_callback"
    pm_tasks,           \* callback tasks created; none of them completes
    pm_last             \* the last call of _process_message: its message,
                        \* the keys and the tasks before it, the future it
                        \* resolved and the tasks it created

processVars == <<pm_listeners, pm_pending, pm_reader, pm_tasks, pm_last>>

\* PageHandler.navigate of main/handlers/page_handler.py.
VARIABLES
    nav_pc,             \* position of the call
    nav_fails,          \* the browser answers Page.navigate with errorText
    nav_resp,           \* its local `response`
    nav_calls,          \* calls started so far
    nav_returns         \* how the calls ended: [fails, line, outcome]

navVars == <<nav_pc, nav_fails, nav_resp, nav_calls, nav_returns>>

\* The loading-frame set of the waits of main/handlers/page_handler.py.
VARIABLES
    ls_wait,            \* the wait that runs: "idle", "load" or "dom"
    ls_frames,          \* its local active_frames
    ls_seen             \* the notifications it has read, in order

framesVars == <<ls_wait, ls_frames, ls_seen>>

\* One BaseHandler of base_handler.py, send_command step by step.
VARIABLES
    sc_calls,           \* the send_command calls; the id of call c is c
    sc_pending,         \* the keys of _pending_requests
    sc_reader,          \* the task running _handle_messages
    sc_last             \* the last reply _process_message was given

commandVars == <<sc_calls, sc_pending, sc_reader, sc_last>>

\* navigate of main/handlers/page_handler.py and the page behind it.
VARIABLES
    nl_pc,              \* position of navigate: "idle", "sent", "wait", "done"
    nl_queue,           \* the frames the peer has sent that nobody has read
    nl_resp,            \* what send_request returned to navigate
    nl_wait,            \* the locals of its wait_for_page_load
    nl_calls            \* calls of navigate so far

loadVars == <<nl_pc, nl_queue, nl_resp, nl_wait, nl_calls>>

\* get_center_coordinates of main/handlers/dom_handler.py.
VARIABLES
    gc_model,           \* the argument of the call
    gc_result           \* what the call returned

centerVars == <<gc_model, gc_result>>

\* The navigation history of the page and the handlers that read it.
VARIABLES
    hs_entries,         \* the urls of the history entries, oldest first
    hs_index,           \* currentIndex, counted from 0
    hs_got              \* the last get_current_url: what it returned and
                        \* the url of the entry at currentIndex then

historyVars == <<hs_entries, hs_index, hs_got>>

pageVars == <<framesVars, commandVars, loadVars, centerVars, historyVars>>

driverVars == <<transportVars, processVars, navVars, pageVars>>

\* Everything but pageVars.
otherVars == <<engineVars, clientVars, wait_seen, newMainVars, domVars,
               findVars, clickVars, insertVars, transportVars, processVars,
               navVars>>

opVars == <<wait_seen, newMainVars, domVars, findVars, clickVars, insertVars,
            driverVars>>

vars == <<engineVars, clientVars, opVars>>

\* ------------------------------------------------------- engine: helpers
CallIds == 1..Len(calls)

\* Mutant of FutureOf: the reply is given to the oldest waiting call of the
\* handler, as if replies came in send order.
FutureOfOldest(h, i) ==
    CHOOSE c \in CallIds :
        /\ calls[c].h = h /\ calls[c].pc = "waiting" /\ calls[c].fut = "pending"
        /\ \A d \in 1..(c - 1) :
              ~(calls[d].h = h /\ calls[d].pc = "waiting"
                /\ calls[d].fut = "pending")

\* The call of handler h whose future is registered under id i.
FutureOf(h, i) ==
    CHOOSE c \in CallIds : calls[c].h = h /\ calls[c].id = i

\* A reader is blocked in connection.recv(): a second recv on the same
\* connection is refused by the websockets library with an error that
\* _handle_messages does not catch.
SomeReaderRunning == \E h \in handlers : reader[h] = "running"

NewCall(h, m) ==
    [h |-> h, id |-> 0, method |-> m, sent |-> FALSE, pc |-> "done",
     fut |-> "none", val |-> 0, out |-> "none", outVal |-> 0, outMethod |-> ""]

\* ------------------------------------------------- engine: initial state
\* BaseHandler.__init__ for every handler of hs.
InitEngine(hs) ==
    /\ handlers = hs
    /\ closed = FALSE
    /\ next_id = [h \in Handlers |-> 1]
    /\ pending = [h \in Handlers |-> {}]
    /\ listeners = [h \in Handlers |-> [n \in EventNames |-> 0]]
    /\ reader = [h \in Handlers |-> "none"]
    /\ calls = <<>>
    /\ answered = {}
    /\ started = <<>>

\* ------------------------------------------------------ engine: actions
\* BaseHandler.start: create the reader task. Its first recv fails when
\* another task is already receiving on the connection.
Start(h) ==
    /\ reader[h] # "running"
    /\ reader' = [reader EXCEPT ![h] =
                    IF SomeReaderRunning THEN "crashed" ELSE "running"]
    /\ UNCHANGED <<clientVars, opVars>>
    /\ UNCHANGED <<handlers, closed, next_id, pending, listeners, calls,
                   answered, started>>

\* BaseHandler.stop: cancel the reader task.
Stop(h) ==
    /\ reader[h] = "running"
    /\ reader' = [reader EXCEPT ![h] = "none"]
    /\ UNCHANGED <<clientVars, opVars>>
    /\ UNCHANGED <<handlers, closed, next_id, pending, listeners, calls,
                   answered, started>>

\* Registration of a callback under a notification name
\* (self._event_listeners[name].append(callback)), as NetworkHandler.enable
\* does once, behind its _enabled flag.
AddEventListener(h, n) ==
    /\ h = "NetworkHandler"
    /\ listeners[h][n] = 0
    /\ listeners' = [listeners EXCEPT ![h][n] = @ + 1]
    /\ UNCHANGED <<clientVars, opVars>>
    /\ UNCHANGED <<handlers, closed, next_id, pending, reader, calls,
                   answered, started>>

\* The connection is closed, by the caller (ChromeDriver.close) or the peer.
Close ==
    /\ ~closed
    /\ closed' = TRUE
    /\ UNCHANGED <<clientVars, opVars>>
    /\ UNCHANGED <<handlers, next_id, pending, listeners, reader, calls,
                   answered, started>>

\* send_command, from its entry to its first suspension.
\*   lines 74-75: a closed connection raises ConnectionError at once;
\*   lines 77-87: the id is taken, the future registered;
\*   line 90:     the frame is sent; a failing send goes to lines 95-97.
SendCommand(h, sendOk) ==
    /\ Len(calls) < MaxCalls
    /\ IF closed
       THEN /\ calls' = Append(calls,
                  [NewCall(h, MethodOf[h]) EXCEPT !.out = "ConnectionError"])
            /\ UNCHANGED <<next_id, pending>>
       ELSE LET id == next_id[h]
                registered == pending[h] \cup {id}
            IN  /\ next_id' = [next_id EXCEPT ![h] = id + 1]
                /\ IF sendOk
                   THEN /\ pending' = [pending EXCEPT ![h] = registered]
                        /\ calls' = Append(calls,
                              [NewCall(h, MethodOf[h]) EXCEPT !.id = id, !.sent = TRUE,
                                 !.pc = "waiting", !.fut = "pending"])
                   ELSE /\ pending' = [pending EXCEPT ![h] = registered \ {id}]
                        /\ calls' = Append(calls,
                              [NewCall(h, MethodOf[h]) EXCEPT !.id = id,
                                 !.out = "ConnectionError"])
    /\ UNCHANGED <<clientVars, opVars>>
    /\ UNCHANGED <<handlers, closed, listeners, reader, answered, started>>

\* ------------------------------------------------------- engine: frames
\* What connection.recv() can return while the connection is open:
\*   result / error : the reply to a command that is on the wire and not yet
\*                    answered; its id is the command's id and its payload
\*                    names the command the peer answered;
\*   event          : a notification {"method": name, "params": ...};
\*   other          : a JSON object with neither a known id nor a method;
\*   badjson        : text that is not JSON;
\*   scalar         : JSON that is not an object (a number).
Reply(kind, c) ==
    [kind |-> kind, id |-> calls[c].id, payload |-> c, name |-> ""]

Unanswered == {c \in CallIds : calls[c].sent /\ c \notin answered}

PeerFrames ==
    {Reply(k, c) : k \in {"result", "error"}, c \in Unanswered}
    \cup {[kind |-> "event", id |-> 0, payload |-> 0, name |-> n] :
            n \in EventNames}
    \cup {[kind |-> k, id |-> 0, payload |-> 0, name |-> ""] :
            k \in {"other", "badjson", "scalar"}}

HasId(f) == f.kind \in {"result", "error"}
HasMethod(f) == f.kind = "event"

\* line 59: the frame carries an id that is a key of _pending_requests.
MatchesPending(h, f) == HasId(f) /\ f.id \in pending[h]

\* lines 60-64: pop the future and resolve it.
ResolveFuture(h, f) ==
    LET c == FutureOf(h, f.id)
    IN  /\ pending' = [pending EXCEPT ![h] = @ \ {f.id}]
        /\ calls' = [calls EXCEPT
              ![c].fut = IF f.kind = "error" THEN "exception" ELSE "result",
              ![c].val = f.payload]

\* lines 65-67: one task per callback registered under the name.
DispatchEvent(h, f) ==
    started' = started \o [i \in 1..listeners[h][f.name] |-> <<h, f.name>>]

\* BaseHandler._process_message.
ProcessMessage(h, f) ==
    IF MatchesPending(h, f)
    THEN ResolveFuture(h, f) /\ UNCHANGED started
    ELSE IF HasMethod(f)
         THEN DispatchEvent(h, f) /\ UNCHANGED <<pending, calls>>
         ELSE UNCHANGED <<pending, calls, started>>

\* What ends the loop of _handle_messages on a frame: json.loads raises
\* JSONDecodeError (caught, line 53: break); _process_message raises
\* TypeError on a non-container ('id' in 5), which nothing catches. The
\* callbacks of a notification run as tasks of their own (line 67) and the
\* loop goes on.
ReaderAfter(f) ==
    CASE f.kind = "badjson" -> "parse_error"
      [] f.kind = "scalar"  -> "crashed"
      [] OTHER              -> "running"

\* One iteration of the loop of _handle_messages on an open connection.
HandleMessage(h, f) ==
    /\ reader[h] = "running"
    /\ ~closed
    /\ f \in PeerFrames
    /\ HasMethod(f) => Len(started) + listeners[h][f.name] <= MaxStarted
    /\ reader' = [reader EXCEPT ![h] = ReaderAfter(f)]
    /\ answered' = IF HasId(f) THEN answered \cup {f.payload} ELSE answered
    /\ IF ReaderAfter(f) = "running"
       THEN ProcessMessage(h, f)
       ELSE UNCHANGED <<pending, calls, started>>
    /\ UNCHANGED <<clientVars, opVars>>
    /\ UNCHANGED <<handlers, closed, next_id, listeners>>

\* recv raises ConnectionClosed: the loop prints and breaks (lines 53-55).
\* The pending futures are left as they are.
HandleClosed(h) ==
    /\ reader[h] = "running"
    /\ closed
    /\ reader' = [reader EXCEPT ![h] = "closed"]
    /\ UNCHANGED <<clientVars, opVars>>
    /\ UNCHANGED <<handlers, closed, next_id, pending, listeners, calls,
                   answered, started>>

\* Mutant of DelPending: the entry is left in the table.
DelPendingForgotten(h, id) == pending

\* lines 93 and 96: del self._pending_requests[request_id].
DelPending(h, id) == [pending EXCEPT ![h] = @ \ {id}]

\* The error send_command raises from its handler of asyncio.TimeoutError
\* (lines 92-94); the del raises KeyError when the id is not a key.
TimeoutOutcome(c) ==
    IF calls[c].id \in pending[calls[c].h]
    THEN [calls[c] EXCEPT !.pc = "done", !.fut = "cancelled",
            !.out = "TimeoutError", !.outMethod = calls[c].method]
    ELSE [calls[c] EXCEPT !.pc = "done", !.fut = "cancelled",
            !.out = "KeyError", !.outVal = calls[c].id]

\* Mutant of Timeout: the future is awaited without a deadline.
AwaitWithoutTimeout(c) == FALSE /\ UNCHANGED vars

\* asyncio.wait_for gives up on a future that is not done: lines 91-94.
Timeout(c) ==
    /\ c \in CallIds
    /\ calls[c].pc = "waiting"
    /\ calls[c].fut = "pending"
    /\ calls' = [calls EXCEPT ![c] = TimeoutOutcome(c)]
    /\ pending' = DelPending(calls[c].h, calls[c].id)
    /\ UNCHANGED <<clientVars, opVars>>
    /\ UNCHANGED <<handlers, closed, next_id, listeners, reader, answered,
                   started>>

\* What send_command does when the awaited future is done: a result is
\* returned (line 91); an exception set by _process_message is caught by
\* `except Exception` (lines 95-97), whose del raises KeyError when the
\* reader has already popped the id.
ResumeOutcome(c) ==
    IF calls[c].fut = "result"
    THEN [calls[c] EXCEPT !.pc = "done", !.out = "result",
            !.outVal = calls[c].val]
    ELSE IF calls[c].id \in pending[calls[c].h]
         THEN [calls[c] EXCEPT !.pc = "done", !.out = "ConnectionError",
                 !.outVal = calls[c].val]
         ELSE [calls[c] EXCEPT !.pc = "done", !.out = "KeyError",
                 !.outVal = calls[c].id]

\* The caller of send_command is resumed with its future done.
Resume(c) ==
    /\ c \in CallIds
    /\ calls[c].pc = "waiting"
    /\ calls[c].fut \in {"result", "exception"}
    /\ calls' = [calls EXCEPT ![c] = ResumeOutcome(c)]
    /\ pending' = IF calls[c].fut = "exception"
                  THEN DelPending(calls[c].h, calls[c].id)
                  ELSE pending
    /\ UNCHANGED <<clientVars, opVars>>
    /\ UNCHANGED <<handlers, closed, next_id, listeners, reader, answered,
                   started>>

\* ===================================================== the facade path
\* send_request calls issued in one behaviour.
MaxRequests == 2

\* The handlers CdpDriver.setup builds on one WebSocketClient.
Facades == {"PageHandler", "DOMHandler"}
FrameIds == {"A", "B"}
FrameEvents == {"Page.frameStartedLoading", "Page.frameStoppedLoading",
                "Page.frameDetached"}

ReqIds == 1..Len(reqs)

\* What websocket.recv() can return while the socket is open:
\*   reply       : the reply to a command on the wire, not yet answered;
\*   event       : a notification; frameId "" stands for no frameId;
\*   other       : a JSON object with no method that answers no command
\*                 on the wire;
\*   badjson     : text that is not JSON;
\*   undecodable : a binary frame that is not text in any encoding;
\*   scalar      : JSON that is not an object.
ClientFrame(kind, id, cmd, name, frameId) ==
    [kind |-> kind, id |-> id, cmd |-> cmd, name |-> name, frameId |-> frameId]

\* What is kept of a response: its shape, its id, the command it answers.
Response(kind, id, cmd) == [kind |-> kind, id |-> id, cmd |-> cmd]

\* receive_message returns None when recv raises (lines 108-110).
NoResponse == Response("none", 0, 0)

ClientFrames ==
    {ClientFrame("reply", wire[k].id, k, "", "") :
        k \in (1..Len(wire)) \ replied}
    \cup {ClientFrame("event", 0, 0, n, f) : n \in FrameEvents, f \in FrameIds}
    \cup {ClientFrame("event", 0, 0, n, "") :
            n \in {"Page.frameStartedLoading", "Page.loadEventFired",
                    "DOM.childNodeInserted"}}
    \cup {ClientFrame(k, 0, 0, "", "") :
            k \in {"other", "badjson", "undecodable", "scalar"}}

\* The notifications a page emits while frames load and stop loading.
IsStartStop(f) ==
    /\ f.kind = "event"
    /\ f.name \in {"Page.frameStartedLoading", "Page.frameStoppedLoading"}

\* What a wait has read once it has read f as well.
SeenAfter(seen, f) ==
    IF IsStartStop(f) /\ seen # "mixed" THEN "frames" ELSE "mixed"

\* The frames that json.loads turns into a dict.
IsObject(f) == f.kind \in {"reply", "event", "other"}

RepliedAfter(f) == IF f.kind = "reply" THEN replied \cup {f.cmd} ELSE replied

\* BaseHandler.__init__ of base_save.py, a connected WebSocketClient, and
\* no wait_for_page_load running.
InitClient ==
    /\ request_id = [h \in Facades |-> 1]
    /\ wire = <<>>
    /\ reqs = <<>>
    /\ replied = {}
    /\ waiter = 0
    /\ ws_closed = FALSE
    /\ wait_pc = "idle"
    /\ active_frames = {}
    /\ load_event_fired = FALSE
    /\ expired = FALSE
    /\ broke_at = 0

waitVars == <<wait_pc, active_frames, load_event_fired, expired, broke_at>>

\* get_next_id: the id this call returns.
GetNextId(h) == request_id[h]

\* send_request up to the end of send_message (lines 25-33): the id is taken
\* from the handler's own counter and the command is written; on a closed
\* socket websocket.send raises and the call ends there.
SendRequest(h) ==
    /\ Len(reqs) < MaxRequests
    /\ request_id' = [request_id EXCEPT ![h] = @ + 1]
    /\ IF ws_closed
       THEN /\ reqs' = Append(reqs, [h |-> h, id |-> GetNextId(h), w |-> 0,
                                     pc |-> "raised", resp |-> NoResponse])
            /\ UNCHANGED wire
       ELSE /\ wire' = Append(wire, [h |-> h, id |-> GetNextId(h)])
            /\ reqs' = Append(reqs, [h |-> h, id |-> GetNextId(h),
                                     w |-> Len(wire) + 1,
                                     pc |-> "sent", resp |-> NoResponse])
    /\ UNCHANGED <<replied, waiter, ws_closed, waitVars>>
    /\ UNCHANGED <<engineVars, opVars>>

\* send_request enters receive_message (line 36). recv raises when the
\* socket is closed or another coroutine is already blocked in recv;
\* receive_message turns that into None.
RecvEnter(r) ==
    /\ r \in ReqIds
    /\ reqs[r].pc = "sent"
    /\ IF ws_closed \/ waiter # 0
       THEN /\ reqs' = [reqs EXCEPT ![r].pc = "done"]
            /\ UNCHANGED waiter
       ELSE /\ reqs' = [reqs EXCEPT ![r].pc = "recv"]
            /\ waiter' = r
    /\ UNCHANGED <<request_id, wire, replied, ws_closed, waitVars>>
    /\ UNCHANGED <<engineVars, opVars>>

\* The response send_request returns: the next frame read (lines 36-37).
ResponseOf(r, f) == Response(f.kind, f.id, f.cmd)

\* recv returns the next frame, whatever it is.
RecvFrame(r, f) ==
    /\ r \in ReqIds
    /\ reqs[r].pc = "recv"
    /\ ~ws_closed
    /\ f \in ClientFrames
    /\ reqs' = [reqs EXCEPT ![r].pc = "done", ![r].resp = ResponseOf(r, f)]
    /\ waiter' = 0
    /\ replied' = RepliedAfter(f)
    /\ UNCHANGED <<request_id, wire, ws_closed, waitVars>>
    /\ UNCHANGED <<engineVars, opVars>>

\* recv raises ConnectionClosed under a blocked send_request.
RecvClosed(r) ==
    /\ r \in ReqIds
    /\ reqs[r].pc = "recv"
    /\ ws_closed
    /\ reqs' = [reqs EXCEPT ![r].pc = "done"]
    /\ waiter' = 0
    /\ UNCHANGED <<request_id, wire, replied, ws_closed, waitVars>>
    /\ UNCHANGED <<engineVars, opVars>>

\* WebSocketClient.close, or the peer closes.
ClientClose ==
    /\ ~ws_closed
    /\ ws_closed' = TRUE
    /\ UNCHANGED <<request_id, wire, reqs, replied, waiter, waitVars>>
    /\ UNCHANGED <<engineVars, opVars>>

\* ================================================ wait_for_page_load
\* lines 78-101: the loading-frame set after a JSON object frame.
FramesAfter(f) ==
    IF f.kind = "event" /\ f.frameId # ""
    THEN CASE f.name = "Page.frameStartedLoading" ->
                active_frames \cup {f.frameId}
           [] f.name \in {"Page.frameStoppedLoading", "Page.frameDetached"} ->
                active_frames \ {f.frameId}
           [] OTHER -> active_frames
    ELSE active_frames

\* lines 99-101: the load-fired flag after a JSON object frame.
LoadAfter(f) ==
    load_event_fired \/ (f.kind = "event" /\ f.name = "Page.loadEventFired")

\* lines 67 and 103: `load_event_fired and not active_frames`.
Settled(load, frames) == load /\ frames = {}

\* The call starts (lines 48-51).
WaitBegin ==
    /\ wait_pc = "idle"
    /\ wait_pc' = "top"
    /\ active_frames' = {}
    /\ load_event_fired' = FALSE
    /\ expired' = FALSE
    /\ broke_at' = 0
    /\ UNCHANGED <<request_id, wire, reqs, replied, waiter, ws_closed>>
    /\ UNCHANGED <<engineVars, opVars>>

\* The overall timeout elapses while the call runs.
Expire ==
    /\ wait_pc \in {"top", "recv"}
    /\ ~expired
    /\ expired' = TRUE
    /\ UNCHANGED <<request_id, wire, reqs, replied, waiter, ws_closed,
                   wait_pc, active_frames, load_event_fired, broke_at>>
    /\ UNCHANGED <<engineVars, opVars>>

\* The top of the loop (lines 54-60): leave on the overall timeout, else
\* receive. receive_message gives None at once when recv raises (socket
\* closed, or a send_request blocked in recv): lines 61-63, continue.
WaitTop ==
    /\ wait_pc = "top"
    /\ IF expired
       THEN /\ wait_pc' = "returned"
            /\ broke_at' = 57
            /\ UNCHANGED waiter
       ELSE IF ws_closed \/ waiter # 0
            THEN UNCHANGED <<wait_pc, broke_at, waiter>>
            ELSE /\ wait_pc' = "recv"
                 /\ waiter' = -1
                 /\ UNCHANGED broke_at
    /\ UNCHANGED <<request_id, wire, reqs, replied, ws_closed, active_frames,
                   load_event_fired, expired>>
    /\ UNCHANGED <<engineVars, opVars>>

\* Where the loop goes on a frame, and the line at which it leaves:
\*   badjson     : JSONDecodeError, lines 71-73, continue;
\*   undecodable : json.loads raises UnicodeDecodeError, lines 74-76, break;
\*   scalar      : response_data.get raises AttributeError at line 78,
\*                 outside the try: the call raises;
\*   an object   : lines 78-105.
WaitAfterFrame(f) ==
    CASE f.kind = "badjson"     -> [pc |-> "top", line |-> 0]
      [] f.kind = "undecodable" -> [pc |-> "returned", line |-> 76]
      [] f.kind = "scalar"      -> [pc |-> "raised", line |-> 78]
      [] OTHER ->
           IF Settled(LoadAfter(f), FramesAfter(f))
           THEN [pc |-> "returned", line |-> 105]
           ELSE [pc |-> "top", line |-> 0]

\* recv returns a frame to the wait (lines 60-105).
WaitFrame(f) ==
    /\ wait_pc = "recv"
    /\ ~ws_closed
    /\ f \in ClientFrames
    /\ waiter' = 0
    /\ replied' = RepliedAfter(f)
    /\ wait_pc' = WaitAfterFrame(f).pc
    /\ broke_at' = WaitAfterFrame(f).line
    /\ IF IsObject(f)
       THEN /\ active_frames' = FramesAfter(f)
            /\ load_event_fired' = LoadAfter(f)
       ELSE UNCHANGED <<active_frames, load_event_fired>>
    /\ wait_seen' = SeenAfter(wait_seen, f)
    /\ UNCHANGED <<request_id, wire, reqs, ws_closed, expired>>
    /\ UNCHANGED <<driverVars, engineVars, newMainVars, domVars, findVars,
                   clickVars, insertVars>>

\* No frame within one second: asyncio.TimeoutError, lines 66-70.
WaitQuiet ==
    /\ wait_pc = "recv"
    /\ ~ws_closed
    /\ waiter' = 0
    /\ IF Settled(load_event_fired, active_frames)
       THEN wait_pc' = "returned" /\ broke_at' = 69
       ELSE wait_pc' = "top" /\ UNCHANGED broke_at
    /\ UNCHANGED <<request_id, wire, reqs, replied, ws_closed, active_frames,
                   load_event_fired, expired>>
    /\ UNCHANGED <<engineVars, opVars>>

\* recv raises ConnectionClosed under the wait: None, lines 61-63, continue.
WaitClosed ==
    /\ wait_pc = "recv"
    /\ ws_closed
    /\ waiter' = 0
    /\ wait_pc' = "top"
    /\ UNCHANGED <<request_id, wire, reqs, replied, ws_closed, active_frames,
                   load_event_fired, expired, broke_at>>
    /\ UNCHANGED <<engineVars, opVars>>

\* What the call hands back after its loop (lines 107-108): the function
\* ends after a log line and has no return statement, so the value is None
\* whichever line left the loop and whatever the locals hold.
WaitResult(line, load, frames) == [kind |-> "None"]

NextRequests ==
    \/ \E h \in Facades : SendRequest(h)
    \/ \E r \in 1..MaxRequests : RecvEnter(r)
    \/ \E r \in 1..MaxRequests : \E f \in ClientFrames : RecvFrame(r, f)
    \/ \E r \in 1..MaxRequests : RecvClosed(r)
    \/ ClientClose

NextWait ==
    \/ ClientClose
    \/ WaitBegin
    \/ Expire
    \/ WaitTop
    \/ \E f \in ClientFrames : WaitFrame(f)
    \/ WaitQuiet
    \/ WaitClosed

\* ============ wait_for_page_load of new_main/handlers/page_handler.py
\* Nothing is waiting and no frame has been read.
InitNewMain ==
    /\ wait_seen = "nothing"
    /\ nm_pc = "idle"
    /\ nm_frames = {}
    /\ nm_expired = FALSE
    /\ nm_broke_at = 0
    /\ nm_seen = "nothing"
    /\ nm_closed = FALSE

\* What recv can return to this wait: its client sends nothing meanwhile.
NmFrames == {f \in ClientFrames : f.kind # "reply"}

\* lines 67-82: the loading-frame set after a JSON object frame.
NmFramesAfter(f) ==
    IF f.kind = "event"
    THEN CASE f.name = "Page.frameStartedLoading" -> nm_frames \cup {f.frameId}
           [] f.name \in {"Page.frameStoppedLoading", "Page.frameDetached"} ->
                nm_frames \ {f.frameId}
           [] OTHER -> nm_frames
    ELSE nm_frames

\* Where the loop goes on a frame; nothing around lines 64-82 is in a try:
\*   badjson, undecodable : json.loads raises at line 64;
\*   scalar               : response_data.get raises at line 65;
\*   a frame event without frameId : KeyError at lines 68, 73, 79;
\*   any other object     : back to the top of the loop.
NmAfterFrame(f) ==
    CASE f.kind \in {"badjson", "undecodable"} -> [pc |-> "raised", line |-> 64]
      [] f.kind = "scalar" -> [pc |-> "raised", line |-> 65]
      [] f.kind = "event" /\ f.name \in FrameEvents /\ f.frameId = "" ->
           [pc |-> "raised", line |-> 68]
      [] OTHER -> [pc |-> "top", line |-> 0]

\* The call starts (lines 45-47).
NmBegin ==
    /\ nm_pc = "idle"
    /\ nm_pc' = "top"
    /\ nm_frames' = {}
    /\ UNCHANGED <<nm_expired, nm_broke_at, nm_seen, nm_closed>>
    /\ UNCHANGED <<driverVars, engineVars, clientVars, wait_seen, domVars,
                   findVars, clickVars, insertVars>>

\* The overall timeout elapses while the call runs.
NmExpire ==
    /\ nm_pc \in {"top", "recv"}
    /\ ~nm_expired
    /\ nm_expired' = TRUE
    /\ UNCHANGED <<nm_pc, nm_frames, nm_broke_at, nm_seen, nm_closed>>
    /\ UNCHANGED <<driverVars, engineVars, clientVars, wait_seen, domVars,
                   findVars, clickVars, insertVars>>

\* The top of the loop (lines 51-56): leave on the overall timeout, else
\* receive; receive_message lets the exception of recv on a closed socket
\* through, and the wait catches only asyncio.TimeoutError.
NmTop ==
    /\ nm_pc = "top"
    /\ IF nm_expired
       THEN nm_pc' = "returned" /\ nm_broke_at' = 53
       ELSE IF nm_closed
            THEN nm_pc' = "raised" /\ nm_broke_at' = 56
            ELSE nm_pc' = "recv" /\ UNCHANGED nm_broke_at
    /\ UNCHANGED <<nm_frames, nm_expired, nm_seen, nm_closed>>
    /\ UNCHANGED <<driverVars, engineVars, clientVars, wait_seen, domVars,
                   findVars, clickVars, insertVars>>

\* recv returns a frame (lines 56, 64-86).
NmFrame(f) ==
    /\ nm_pc = "recv"
    /\ ~nm_closed
    /\ f \in NmFrames
    /\ nm_pc' = NmAfterFrame(f).pc
    /\ nm_broke_at' = NmAfterFrame(f).line
    /\ nm_frames' = IF NmAfterFrame(f).pc = "top" THEN NmFramesAfter(f)
                    ELSE nm_frames
    /\ nm_seen' = SeenAfter(nm_seen, f)
    /\ UNCHANGED <<nm_expired, nm_closed>>
    /\ UNCHANGED <<driverVars, engineVars, clientVars, wait_seen, domVars,
                   findVars, clickVars, insertVars>>

\* No frame within one second: asyncio.TimeoutError, lines 57-62.
NmQuiet ==
    /\ nm_pc = "recv"
    /\ ~nm_closed
    /\ IF nm_frames = {}
       THEN nm_pc' = "returned" /\ nm_broke_at' = 61
       ELSE nm_pc' = "top" /\ UNCHANGED nm_broke_at
    /\ UNCHANGED <<nm_frames, nm_expired, nm_seen, nm_closed>>
    /\ UNCHANGED <<driverVars, engineVars, clientVars, wait_seen, domVars,
                   findVars, clickVars, insertVars>>

\* The socket closes; a blocked recv raises ConnectionClosed (line 56).
NmClose ==
    /\ ~nm_closed
    /\ nm_closed' = TRUE
    /\ IF nm_pc = "recv"
       THEN nm_pc' = "raised" /\ nm_broke_at' = 56
       ELSE UNCHANGED <<nm_pc, nm_broke_at>>
    /\ UNCHANGED <<nm_frames, nm_expired, nm_seen>>
    /\ UNCHANGED <<driverVars, engineVars, clientVars, wait_seen, domVars,
                   findVars, clickVars, insertVars>>

NextWaitNew ==
    \/ NmBegin
    \/ NmExpire
    \/ NmTop
    \/ \E f \in NmFrames : NmFrame(f)
    \/ NmQuiet
    \/ NmClose

\* ========================================== wait_for_page_dom_load
\* Calls of wait_for_page_dom_load in one behaviour.
MaxWaits == 2
\* inactivity_timeout, in clock ticks.
InactivityTicks == 2

InitDomWait ==
    /\ dom_pc = "idle"
    /\ dom_frames = {}
    /\ dom_activity = FALSE
    /\ dom_load = FALSE
    /\ dom_expired = FALSE
    /\ dom_broke_at = 0
    /\ quiet_any = 0
    /\ quiet_tracked = 0
    /\ dom_calls = 0
    /\ dom_returns = {}

\* The events the wait tracks (lines 156-176); every notification the peer
\* of this model sends is one of them.
IsTracked(f) == f.kind = "event"

\* lines 186-192, without the duration.
DomResult(frames, activity, load) ==
    [status |-> "completed", active_frames |-> Cardinality(frames),
     dom_activity |-> activity, load_event_fired |-> load]

\* lines 155-167: active_frames after a JSON object frame.
DomFramesAfter(f) ==
    IF f.kind = "event" /\ f.frameId # ""
    THEN CASE f.name = "Page.frameStartedLoading" -> dom_frames \cup {f.frameId}
           [] f.name \in {"Page.frameStoppedLoading", "Page.frameDetached"} ->
                dom_frames \ {f.frameId}
           [] OTHER -> dom_frames
    ELSE dom_frames

\* lines 159 and 170-173: dom_activity_detected after a JSON object frame.
DomActivityAfter(f) ==
    \/ dom_activity
    \/ f.kind = "event" /\ f.name = "Page.frameStartedLoading" /\ f.frameId # ""
    \/ f.kind = "event" /\ f.name = "DOM.childNodeInserted"

\* lines 176-178.
DomLoadAfter(f) ==
    dom_load \/ (f.kind = "event" /\ f.name = "Page.loadEventFired")

\* lines 176-181: the load event with no frame loading leaves the loop.
DomBreaksOn(f) ==
    f.kind = "event" /\ f.name = "Page.loadEventFired" /\ dom_frames = {}

\* A test that is never made.
DomTimeoutNeverTested(elapsed) == FALSE

\* line 128: now - start_time > timeout.
DomTimedOut(elapsed) == elapsed

\* The loop is left at `line`: lines 183-192 build the result.
DomReturn(line, frames, activity, load) ==
    /\ dom_pc' = "returned"
    /\ dom_broke_at' = line
    /\ dom_returns' = dom_returns \cup
          {[line |-> line, result |-> DomResult(frames, activity, load)]}

\* The call starts (lines 117-122).
DomBegin ==
    /\ dom_pc \in {"idle", "returned"}
    /\ dom_calls < MaxWaits
    /\ dom_calls' = dom_calls + 1
    /\ dom_pc' = "top"
    /\ dom_frames' = {}
    /\ dom_activity' = FALSE
    /\ dom_load' = FALSE
    /\ dom_expired' = FALSE
    /\ dom_broke_at' = 0
    /\ quiet_any' = 0
    /\ quiet_tracked' = 0
    /\ UNCHANGED dom_returns
    /\ UNCHANGED <<driverVars, engineVars, clientVars, wait_seen, newMainVars,
                   findVars, clickVars, insertVars>>

\* The overall timeout elapses while the call runs.
DomExpire ==
    /\ dom_pc \in {"top", "recv"}
    /\ ~dom_expired
    /\ dom_expired' = TRUE
    /\ UNCHANGED <<dom_pc, dom_frames, dom_activity, dom_load, dom_broke_at,
                   quiet_any, quiet_tracked, dom_calls, dom_returns>>
    /\ UNCHANGED <<driverVars, engineVars, clientVars, wait_seen, newMainVars,
                   findVars, clickVars, insertVars>>

\* The clock advances by one tick while the call runs.
DomTick ==
    /\ dom_pc \in {"top", "recv"}
    /\ quiet_any < InactivityTicks \/ quiet_tracked < InactivityTicks
    /\ quiet_any' = IF quiet_any < InactivityTicks THEN quiet_any + 1
                    ELSE quiet_any
    /\ quiet_tracked' = IF quiet_tracked < InactivityTicks
                        THEN quiet_tracked + 1 ELSE quiet_tracked
    /\ UNCHANGED <<dom_pc, dom_frames, dom_activity, dom_load, dom_expired,
                   dom_broke_at, dom_calls, dom_returns>>
    /\ UNCHANGED <<driverVars, engineVars, clientVars, wait_seen, newMainVars,
                   findVars, clickVars, insertVars>>

\* The top of the loop (lines 125-141): the overall timeout, then the
\* inactivity test on last_activity, then receive; receive_message gives
\* None at once when recv raises, and the loop continues.
DomTop ==
    /\ dom_pc = "top"
    /\ IF DomTimedOut(dom_expired)
       THEN /\ DomReturn(130, dom_frames, dom_activity, dom_load)
            /\ UNCHANGED waiter
       ELSE IF quiet_any >= InactivityTicks
            THEN /\ DomReturn(135, dom_frames, dom_activity, dom_load)
                 /\ UNCHANGED waiter
            ELSE IF ws_closed \/ waiter # 0
                 THEN UNCHANGED <<dom_pc, dom_broke_at, dom_returns, waiter>>
                 ELSE /\ dom_pc' = "recv"
                      /\ waiter' = -2
                      /\ UNCHANGED <<dom_broke_at, dom_returns>>
    /\ UNCHANGED <<dom_frames, dom_activity, dom_load, dom_expired, quiet_any,
                   quiet_tracked, dom_calls>>
    /\ UNCHANGED <<request_id, wire, reqs, replied, ws_closed, waitVars>>
    /\ UNCHANGED <<driverVars, engineVars, wait_seen, newMainVars, findVars,
                   clickVars, insertVars>>

\* recv returns a frame (lines 139-181). json.loads or data.get raising
\* (lines 143-144) is caught at lines 150-152 before last_activity is set;
\* every JSON object sets last_activity at line 146. recv is given what is
\* left of the inactivity window (line 138): no frame is read after it.
DomFrame(f) ==
    /\ dom_pc = "recv"
    /\ ~ws_closed
    /\ quiet_any < InactivityTicks
    /\ f \in ClientFrames
    /\ waiter' = 0
    /\ replied' = RepliedAfter(f)
    /\ IF IsObject(f)
       THEN /\ quiet_any' = 0
            /\ quiet_tracked' = IF IsTracked(f) THEN 0 ELSE quiet_tracked
            /\ dom_frames' = DomFramesAfter(f)
            /\ dom_activity' = DomActivityAfter(f)
            /\ dom_load' = DomLoadAfter(f)
            /\ IF DomBreaksOn(f)
               THEN DomReturn(181, DomFramesAfter(f), DomActivityAfter(f),
                              DomLoadAfter(f))
               ELSE /\ dom_pc' = "top"
                    /\ UNCHANGED <<dom_broke_at, dom_returns>>
       ELSE /\ dom_pc' = "top"
            /\ UNCHANGED <<quiet_any, quiet_tracked, dom_frames, dom_activity,
                           dom_load, dom_broke_at, dom_returns>>
    /\ UNCHANGED <<dom_expired, dom_calls>>
    /\ UNCHANGED <<request_id, wire, reqs, ws_closed, waitVars>>
    /\ UNCHANGED <<driverVars, engineVars, wait_seen, newMainVars, findVars,
                   clickVars, insertVars>>

\* No frame within wait_time: asyncio.TimeoutError, lines 148-149.
DomQuiet ==
    /\ dom_pc = "recv"
    /\ ~ws_closed
    /\ waiter' = 0
    /\ dom_pc' = "top"
    /\ UNCHANGED <<dom_frames, dom_activity, dom_load, dom_expired,
                   dom_broke_at, quiet_any, quiet_tracked, dom_calls,
                   dom_returns>>
    /\ UNCHANGED <<request_id, wire, reqs, replied, ws_closed, waitVars>>
    /\ UNCHANGED <<driverVars, engineVars, wait_seen, newMainVars, findVars,
                   clickVars, insertVars>>

\* recv raises ConnectionClosed under the wait: None, lines 140-141.
DomClosed ==
    /\ dom_pc = "recv"
    /\ ws_closed
    /\ waiter' = 0
    /\ dom_pc' = "top"
    /\ UNCHANGED <<dom_frames, dom_activity, dom_load, dom_expired,
                   dom_broke_at, quiet_any, quiet_tracked, dom_calls,
                   dom_returns>>
    /\ UNCHANGED <<request_id, wire, reqs, replied, ws_closed, waitVars>>
    /\ UNCHANGED <<driverVars, engineVars, wait_seen, newMainVars, findVars,
                   clickVars, insertVars>>

NextDomWait ==
    \/ ClientClose
    \/ DomBegin
    \/ DomExpire
    \/ DomTick
    \/ DomTop
    \/ \E f \in ClientFrames : DomFrame(f)
    \/ DomQuiet
    \/ DomClosed

\* ============================================ find_element_by_xpath
\* Frames the loop of get_search_results reads in one behaviour.
MaxDrain == 2

\* What send_request hands back, as far as the lookup looks at it:
\*   search  : JSON with result.searchId (present or not) and resultCount;
\*   nodeIds : JSON with result.nodeIds, a list of `len` node ids;
\*   object  : any other JSON object, and text that is not JSON, which
\*             _parse_response turns into {} (lines 25-27);
\*   none    : receive_message returned None.
FindFrames ==
    {[t |-> "search", sid |-> b, n |-> k] : b \in BOOLEAN, k \in 0..1}
    \cup {[t |-> "nodeIds", sid |-> FALSE, n |-> k] : k \in 0..1}
    \cup {[t |-> x, sid |-> FALSE, n |-> 0] : x \in {"object", "none"}}

InitFind ==
    /\ fx_pc = "idle"
    /\ fx_sent = <<>>
    /\ fx_zero = FALSE
    /\ fx_doc = FALSE
    /\ fx_node = 0
    /\ fx_ret = ""
    /\ fx_late = FALSE
    /\ fx_drained = 0

\* perform_search (lines 247-275) on the response f: "raise" when f is None
\* (parsed_search.get on None), else the search id it returns, 0 for None.
PerformSearch(f) ==
    IF f.t = "none" THEN "raise"
    ELSE IF f.t = "search" /\ f.sid /\ f.n # 0 THEN "searchId" ELSE "None"

\* lines 307 and 310: result.nodeIds is not None.
HasNodeIds(f) == f.t = "nodeIds"

\* lines 313-319: the node id get_search_results returns for the frame that
\* ended its loop; [][0] raises IndexError, which line 317 turns into None.
NodeIdOf(f) == IF f.t = "nodeIds" /\ f.n > 0 THEN 1 ELSE 0

\* The lookup sends `method` and awaits what send_request returns.
FindSend(method, pc) ==
    /\ fx_sent' = Append(fx_sent, method)
    /\ fx_pc' = pc

\* The lookup ends (lines 341-351).
FindEnd(ret) ==
    /\ fx_pc' = "done"
    /\ fx_ret' = ret
    /\ UNCHANGED fx_sent

\* find_element_by_xpath starts: get_document sends DOM.getDocument.
FindBegin ==
    /\ fx_pc = "idle"
    /\ FindSend("DOM.getDocument", "document")
    /\ UNCHANGED <<fx_zero, fx_doc, fx_node, fx_ret, fx_late, fx_drained>>
    /\ UNCHANGED <<driverVars, engineVars, clientVars, wait_seen, newMainVars,
                   domVars, clickVars, insertVars>>

\* get_document returns (lines 177-182); perform_search sends its command.
FindDocument(f) ==
    /\ fx_pc = "document"
    /\ f \in FindFrames
    /\ fx_doc' = (f.t # "none")
    /\ FindSend("DOM.performSearch", "search")
    /\ UNCHANGED <<fx_zero, fx_node, fx_ret, fx_late, fx_drained>>
    /\ UNCHANGED <<driverVars, engineVars, clientVars, wait_seen, newMainVars,
                   domVars, clickVars, insertVars>>

\* perform_search returns or raises (lines 257-275); line 336 then calls
\* get_search_results with whatever it returned, None included.
FindSearch(f) ==
    /\ fx_pc = "search"
    /\ f \in FindFrames
    /\ fx_zero' = (f.t = "search" /\ f.n = 0)
    /\ IF PerformSearch(f) = "raise"
       THEN FindEnd("None")
       ELSE FindSend("DOM.getSearchResults", "results") /\ UNCHANGED fx_ret
    /\ UNCHANGED <<fx_doc, fx_node, fx_late, fx_drained>>
    /\ UNCHANGED <<driverVars, engineVars, clientVars, wait_seen, newMainVars,
                   domVars, clickVars, insertVars>>

\* A command timeout passes while get_search_results awaits its node ids.
FindDeadline ==
    /\ fx_pc \in {"results", "drain"}
    /\ ~fx_late
    /\ fx_late' = TRUE
    /\ UNCHANGED <<fx_pc, fx_sent, fx_zero, fx_doc, fx_node, fx_ret,
                   fx_drained>>
    /\ UNCHANGED <<driverVars, engineVars, clientVars, wait_seen, newMainVars,
                   domVars, clickVars, insertVars>>

\* get_search_results reads a frame (lines 305-319): the response of
\* send_request, then the frames of its loop. None ends it through the
\* except clause; a frame with nodeIds ends it; any other frame makes the
\* loop read the next one. describe_node then sends its command.
FindResults(f) ==
    /\ fx_pc \in {"results", "drain"}
    /\ f \in FindFrames
    /\ IF f.t = "none" \/ HasNodeIds(f)
       THEN /\ fx_node' = NodeIdOf(f)
            /\ FindSend("DOM.describeNode", "describe")
            /\ UNCHANGED fx_drained
       ELSE /\ fx_drained < MaxDrain
            /\ fx_drained' = fx_drained + 1
            /\ fx_pc' = "drain"
            /\ UNCHANGED <<fx_node, fx_sent>>
    /\ UNCHANGED <<fx_zero, fx_doc, fx_ret, fx_late>>
    /\ UNCHANGED <<driverVars, engineVars, clientVars, wait_seen, newMainVars,
                   domVars, clickVars, insertVars>>

\* describe_node returns or raises (lines 285-289); get_box_model sends.
FindDescribe(f) ==
    /\ fx_pc = "describe"
    /\ f \in FindFrames
    /\ IF f.t = "none"
       THEN FindEnd("None")
       ELSE FindSend("DOM.getBoxModel", "box") /\ UNCHANGED fx_ret
    /\ UNCHANGED <<fx_zero, fx_doc, fx_node, fx_late, fx_drained>>
    /\ UNCHANGED <<driverVars, engineVars, clientVars, wait_seen, newMainVars,
                   domVars, clickVars, insertVars>>

\* get_box_model returns or raises (lines 291-296), then lines 341-351:
\* the Element is built unless a .get on None raises.
FindBox(f) ==
    /\ fx_pc = "box"
    /\ f \in FindFrames
    /\ FindEnd(IF f.t = "none" \/ ~fx_doc THEN "None" ELSE "Element")
    /\ UNCHANGED <<fx_zero, fx_doc, fx_node, fx_late, fx_drained>>
    /\ UNCHANGED <<driverVars, engineVars, clientVars, wait_seen, newMainVars,
                   domVars, clickVars, insertVars>>

NextFind ==
    \/ FindBegin
    \/ \E f \in FindFrames : FindDocument(f)
    \/ \E f \in FindFrames : FindSearch(f)
    \/ FindDeadline
    \/ \E f \in FindFrames : FindResults(f)
    \/ \E f \in FindFrames : FindDescribe(f)
    \/ \E f \in FindFrames : FindBox(f)

\* ==================================================== click_element
\* Calls of click_element in one behaviour.
MaxClicks == 2

\* The argument: None, or an Element with its node id (0 stands for None)
\* and the box model find_element_by_xpath stored in it: none, a model
\* with a content quad, or a dict without one.
NoElement == [node_id |-> 0, box |-> "absent"]
Elements ==
    {NoElement} \cup
    {[node_id |-> n, box |-> b] : n \in 0..1,
                                    b \in {"none", "valid", "malformed"}}

InitClick ==
    /\ ck_pc = "idle"
    /\ ck_elem = NoElement
    /\ ck_stale = FALSE
    /\ ck_sent = <<>>
    /\ ck_calls = 0
    /\ ck_returns = {}

\* lines 548-559: why the call returns False before sending anything, or
\* "" when it goes on.
ClickRefusal(e) ==
    IF e = NoElement THEN "no_element"
    ELSE IF e.box = "none" THEN "no_geometry"
    ELSE IF e.node_id = 0 THEN "no_node"
    ELSE ""

\* get_center_coordinates (lines 31-49): a pair, or False.
CenterOf(box) == IF box = "valid" THEN "pair" ELSE "False"

\* click_element returns `ret`; `cause` is why.
ClickReturn(cause, stale, ret) ==
    /\ ck_pc' = "done"
    /\ ck_returns' = ck_returns \cup
          {[cause |-> cause, stale |-> stale, ret |-> ret]}

\* The call starts (lines 547-559).
ClickBegin(e, stale) ==
    /\ ck_pc \in {"idle", "done"}
    /\ ck_calls < MaxClicks
    /\ e \in Elements
    /\ stale \in BOOLEAN
    /\ stale => (e # NoElement /\ e.node_id # 0)
    /\ ck_calls' = ck_calls + 1
    /\ ck_elem' = e
    /\ ck_stale' = stale
    /\ ck_sent' = <<>>
    /\ IF ClickRefusal(e) # ""
       THEN ClickReturn(ClickRefusal(e), stale, "False")
       ELSE ck_pc' = "highlight" /\ UNCHANGED ck_returns
    /\ UNCHANGED <<driverVars, engineVars, clientVars, wait_seen, newMainVars,
                   domVars, findVars, insertVars>>

\* highlight_element_border (lines 203-245) sends DOM.resolveNode; what
\* send_request returns is a str or None, so `resolved.get` raises and its
\* own except clause returns False, as it does when the send raises; line
\* 560 ignores the value. Line 561 then unpacks the centre: unpacking False
\* raises TypeError, which line 578 turns into False.
ClickHighlight(sendOk) ==
    /\ ck_pc = "highlight"
    /\ ck_sent' = IF sendOk THEN Append(ck_sent, "DOM.resolveNode")
                  ELSE ck_sent
    /\ IF CenterOf(ck_elem.box) = "False"
       THEN ClickReturn("generic", ck_stale, "False")
       ELSE ck_pc' = "move" /\ UNCHANGED ck_returns
    /\ UNCHANGED <<ck_elem, ck_stale, ck_calls>>
    /\ UNCHANGED <<driverVars, engineVars, clientVars, wait_seen, newMainVars,
                   domVars, findVars, insertVars>>

\* The position after a mouse event was sent.
AfterMouse(pc) ==
    CASE pc = "move" -> "press"
      [] pc = "press" -> "release"
      [] OTHER -> "wait"

\* The type of the Input.dispatchMouseEvent sent at a position.
MouseEvent(pc) ==
    CASE pc = "move" -> "mouseMoved"
      [] pc = "press" -> "mousePressed"
      [] OTHER -> "mouseReleased"

\* What a mouse helper adds to the trace: its event, and for move_mouse
\* (lines 380-389) the wait_for_page_dom_load of DOMHandler (line 105) it
\* awaits before it returns; press_mouse and release_mouse (lines 391-411)
\* only send.
SentAfterMouse(sent, pc) ==
    IF pc = "move"
    THEN sent \o <<MouseEvent(pc), "DOMHandler.wait_for_page_dom_load">>
    ELSE Append(sent, MouseEvent(pc))

\* move_mouse, press_mouse, release_mouse (lines 568-570): the event is
\* sent at the x, y of line 561 and the response is not looked at (the
\* DOM-stability wait inside move_mouse returns by its timeouts); a send
\* that raises ends the call with False (line 578).
ClickMouse(sendOk) ==
    /\ ck_pc \in {"move", "press", "release"}
    /\ IF sendOk
       THEN /\ ck_sent' = SentAfterMouse(ck_sent, ck_pc)
            /\ ck_pc' = AfterMouse(ck_pc)
            /\ UNCHANGED ck_returns
       ELSE /\ ClickReturn("protocol", ck_stale, "False")
            /\ UNCHANGED ck_sent
    /\ UNCHANGED <<ck_elem, ck_stale, ck_calls>>
    /\ UNCHANGED <<driverVars, engineVars, clientVars, wait_seen, newMainVars,
                   domVars, findVars, insertVars>>

\* lines 574-576: the DOM-stability wait returns, and the call returns True.
ClickWait ==
    /\ ck_pc = "wait"
    /\ ClickReturn("clicked", ck_stale, "True")
    /\ ck_sent' = Append(ck_sent, "PageHandler.wait_for_page_dom_load")
    /\ UNCHANGED <<ck_elem, ck_stale, ck_calls>>
    /\ UNCHANGED <<driverVars, engineVars, clientVars, wait_seen, newMainVars,
                   domVars, findVars, insertVars>>

NextClick ==
    \/ \E e \in Elements, stale \in BOOLEAN : ClickBegin(e, stale)
    \/ \E ok \in BOOLEAN : ClickHighlight(ok)
    \/ \E ok \in BOOLEAN : ClickMouse(ok)
    \/ ClickWait

\* ====================================================== insert_text
\* Calls of insert_text in one behaviour.
MaxInserts == 2

InsertVariants == {"DOMHandler", "InputHandler"}
\* The argument `text`, as its characters; "backslash" and "backtick" stand
\* for the characters of these names.
Texts == {<<"a">>, <<"a", "b">>, <<"backslash", "n">>, <<"backtick">>}
\* Ctrl+A and Backspace, down and up: the key events that clear the field.
ClearKeys == 4
\* The clearing key event that empties the field: Backspace down, the third.
BackspaceDown == 3

InitInsert ==
    /\ in_pc = "idle"
    /\ in_variant = "DOMHandler"
    /\ in_node = 0
    /\ in_text = <<>>
    /\ in_js = ""
    /\ in_input = ""
    /\ in_typed = <<>>
    /\ in_keys = 0
    /\ in_sent = <<>>
    /\ in_ret = ""
    /\ in_calls = 0
    /\ in_field = <<"x">>
    /\ in_returns = {}

\* The object id _insert_text_via_javascript gets from the response to
\* DOM.resolveNode ("object": a reply with an object, "error": a reply
\* without one, "none": no response). In DOMHandler `resolved` is what
\* send_request returned, a str or None, so resolved.get raises (line 631)
\* and line 661 returns False; InputHandler parses the response first
\* (RuntimeHandler.resolve_node).
ResolvedObject(v, resp) == v = "InputHandler" /\ resp = "object"

\* input_handler.py lines 315-317: `success is True`.
JsSuccess(value) == value = "true"

\* js_func (dom_handler.py lines 637-651, input_handler.py lines 298-312)
\* puts the text between backticks as it is: `{text}` of the f-string. The
\* browser reads it as a template literal. A backtick that no backslash
\* precedes ends the literal, and a backslash at the end takes the closing
\* backtick: the declaration is then not a function and the call returns
\* no value.
RECURSIVE LiteralParses(_)
LiteralParses(text) ==
    IF text = <<>> THEN TRUE
    ELSE IF Head(text) = "backslash"
         THEN Len(text) >= 2 /\ LiteralParses(SubSeq(text, 3, Len(text)))
         ELSE Head(text) # "backtick" /\ LiteralParses(Tail(text))

\* The character an escape sequence of a template literal stands for:
\* \n is a line feed ("LF"); a character with no meaning after a
\* backslash stands for itself.
Unescape(ch) == IF ch = "n" THEN "LF" ELSE ch

\* The string the template literal evaluates to, which the function
\* assigns to this.value or this.innerText.
RECURSIVE TemplateLiteral(_)
TemplateLiteral(text) ==
    IF text = <<>> THEN <<>>
    ELSE IF Head(text) = "backslash" /\ Len(text) >= 2
         THEN <<Unescape(text[2])>>
                \o TemplateLiteral(SubSeq(text, 3, Len(text)))
         ELSE <<Head(text)>> \o TemplateLiteral(Tail(text))

\* The field after a key event that carries "text": char (lines 695-702):
\* the character is put at the end.
KeyTyped(field, ch) == Append(field, ch)

\* The field after the n-th clearing key event (lines 673-692).
FieldAfterClear(field, n) == IF n = BackspaceDown THEN <<>> ELSE field

\* The record of a return of insert_text.
InsertReturned(text, js, input, field, ret) ==
    in_returns' = in_returns \cup
        {[text |-> text, js |-> js, input |-> input, field |-> field,
          ret |-> ret]}

\* The text handed to _insert_text_via_input (dom_handler.py line 613,
\* input_handler.py line 283).
FallbackText(text) == text

\* What insert_text returns after the keyboard emulation. DOMHandler, lines
\* 617-622: True when it succeeded, else False. InputHandler, lines
\* 283-285: the value of the emulation is dropped and True is returned.
InsertResultNeverTrue(v, inputOk) == "False"

InsertResult(v, inputOk) ==
    IF v = "InputHandler" \/ inputOk THEN "True" ELSE "False"

\* A fallback that runs whatever the fast path returned.
AlwaysFallback(js_success) == "focus"

\* Where insert_text goes after the fast path (dom_handler.py lines
\* 605-613, input_handler.py lines 275-283): it returns True, or it
\* enters the keyboard emulation.
AfterFastPath(js_success) == IF js_success THEN "done" ELSE "focus"

\* The commands of _insert_text_via_input.
Command(method, type, key, modifiers) ==
    [method |-> method, type |-> type, key |-> key, modifiers |-> modifiers]
KeyEvent(type, key, modifiers) ==
    Command("Input.dispatchKeyEvent", type, key, modifiers)
FocusCommand == Command("DOM.focus", "", "", 0)

\* Clearing key events in another order: Backspace before Ctrl+A.
ClearKeyEventBackspaceFirst(n) ==
    CASE n = 1 -> KeyEvent("keyDown", "Backspace", 0)
      [] n = 2 -> KeyEvent("keyUp", "Backspace", 0)
      [] n = 3 -> KeyEvent("keyDown", "a", 2)
      [] OTHER -> KeyEvent("keyUp", "a", 2)

\* The n-th clearing key event (lines 673-692); modifiers 2 is Ctrl.
ClearKeyEvent(n) ==
    CASE n = 1 -> KeyEvent("keyDown", "a", 2)
      [] n = 2 -> KeyEvent("keyUp", "a", 2)
      [] n = 3 -> KeyEvent("keyDown", "Backspace", 0)
      [] OTHER -> KeyEvent("keyUp", "Backspace", 0)

\* In the loop of lines 695-707 the keyDown of a character was sent and
\* its keyUp (line 703) comes next; the clearing ends with a keyUp.
KeyUpDue(sent) == sent # <<>> /\ sent[Len(sent)].type = "keyDown"

insertLocals == <<in_variant, in_node, in_text, in_calls>>

\* The call starts (dom_handler.py lines 597-603, input_handler.py lines
\* 267-273); focus_on_element swallows its own failures.
InsertBegin(v, n, t) ==
    /\ in_pc \in {"idle", "done"}
    /\ in_calls < MaxInserts
    /\ in_calls' = in_calls + 1
    /\ in_variant' = v
    /\ in_node' = n
    /\ in_text' = t
    /\ in_js' = ""
    /\ in_input' = ""
    /\ in_typed' = <<>>
    /\ in_keys' = 0
    /\ in_sent' = <<>>
    /\ IF n = 0
       THEN /\ in_pc' = "done" /\ in_ret' = "False"
            /\ InsertReturned(t, "", "", in_field, "False")
       ELSE in_pc' = "resolve" /\ in_ret' = "" /\ UNCHANGED in_returns
    /\ UNCHANGED in_field
    /\ UNCHANGED <<driverVars, engineVars, clientVars, wait_seen, newMainVars,
                   domVars, findVars, clickVars>>

\* The script fast path resolves the node (dom_handler.py lines 628-634,
\* input_handler.py lines 291-295).
InsertResolve(resp) ==
    /\ in_pc = "resolve"
    /\ IF ResolvedObject(in_variant, resp)
       THEN in_pc' = "call" /\ UNCHANGED in_js
       ELSE in_pc' = AfterFastPath(FALSE) /\ in_js' = "failed"
    /\ UNCHANGED <<in_input, in_typed, in_keys, in_sent, in_ret,
                   insertLocals, in_field, in_returns>>
    /\ UNCHANGED <<driverVars, engineVars, clientVars, wait_seen, newMainVars,
                   domVars, findVars, clickVars>>

\* The script fast path calls the function and insert_text looks at its
\* value (input_handler.py lines 315-321 and 276-279).
InsertCall(value) ==
    /\ in_pc = "call"
    /\ value = "true" => LiteralParses(in_text)
    /\ IF JsSuccess(value)
       THEN /\ in_js' = "ok" /\ in_pc' = AfterFastPath(TRUE)
            /\ in_ret' = "True"
            /\ in_field' = TemplateLiteral(in_text)
            /\ InsertReturned(in_text, "ok", in_input,
                              TemplateLiteral(in_text), "True")
       ELSE /\ in_js' = "failed" /\ in_pc' = AfterFastPath(FALSE)
            /\ UNCHANGED <<in_ret, in_field, in_returns>>
    /\ UNCHANGED <<in_input, in_typed, in_keys, in_sent, insertLocals>>
    /\ UNCHANGED <<driverVars, engineVars, clientVars, wait_seen, newMainVars,
                   domVars, findVars, clickVars>>

\* The keyboard emulation fails: a send raised, and the except clause of
\* _insert_text_via_input returns False (lines 710-712).
InsertInputFails ==
    /\ in_input' = "failed"
    /\ in_pc' = "done"
    /\ in_ret' = InsertResult(in_variant, FALSE)
    /\ InsertReturned(in_text, in_js, "failed", in_field,
                      InsertResult(in_variant, FALSE))

\* _insert_text_via_input sends DOM.focus (line 670).
InsertFocus(sendOk) ==
    /\ in_pc = "focus"
    /\ IF sendOk
       THEN /\ in_pc' = "clear"
            /\ in_sent' = Append(in_sent, FocusCommand)
            /\ UNCHANGED <<in_input, in_ret, in_returns>>
       ELSE InsertInputFails /\ UNCHANGED in_sent
    /\ UNCHANGED <<in_js, in_typed, in_keys, insertLocals, in_field>>
    /\ UNCHANGED <<driverVars, engineVars, clientVars, wait_seen, newMainVars,
                   domVars, findVars, clickVars>>

\* It sends one of the key events that clear the field (lines 673-692).
InsertClear(sendOk) ==
    /\ in_pc = "clear"
    /\ IF sendOk
       THEN /\ in_keys' = in_keys + 1
            /\ in_pc' = IF in_keys + 1 = ClearKeys THEN "type" ELSE "clear"
            /\ in_field' = FieldAfterClear(in_field, in_keys + 1)
            /\ in_sent' = Append(in_sent, ClearKeyEvent(in_keys + 1))
            /\ UNCHANGED <<in_input, in_ret, in_returns>>
       ELSE InsertInputFails /\ UNCHANGED <<in_keys, in_field, in_sent>>
    /\ UNCHANGED <<in_js, in_typed, insertLocals>>
    /\ UNCHANGED <<driverVars, engineVars, clientVars, wait_seen, newMainVars,
                   domVars, findVars, clickVars>>

\* It sends the next key event of the loop of lines 695-707: the keyDown
\* of the next character of its text, which carries the character as its
\* "text", or the keyUp of the character whose keyDown it sent last; or it
\* has sent them all and returns True (line 709), and insert_text then
\* returns (dom_handler.py lines 615-622, input_handler.py line 285).
InsertType(sendOk) ==
    /\ in_pc = "type"
    /\ IF Len(in_typed) = Len(FallbackText(in_text)) /\ ~KeyUpDue(in_sent)
       THEN /\ in_input' = "ok"
            /\ in_pc' = "done"
            /\ in_ret' = InsertResult(in_variant, TRUE)
            /\ InsertReturned(in_text, in_js, "ok", in_field,
                              InsertResult(in_variant, TRUE))
            /\ UNCHANGED <<in_typed, in_field, in_sent>>
       ELSE IF sendOk
            THEN IF KeyUpDue(in_sent)
                 THEN /\ in_sent' = Append(in_sent,
                            KeyEvent("keyUp", in_typed[Len(in_typed)], 0))
                      /\ UNCHANGED <<in_typed, in_field, in_pc, in_input,
                                     in_ret, in_returns>>
                 ELSE /\ in_typed' = Append(in_typed,
                            FallbackText(in_text)[Len(in_typed) + 1])
                      /\ in_field' = KeyTyped(in_field,
                            FallbackText(in_text)[Len(in_typed) + 1])
                      /\ in_sent' = Append(in_sent,
                            KeyEvent("keyDown",
                                     FallbackText(in_text)[Len(in_typed) + 1],
                                     0))
                      /\ UNCHANGED <<in_pc, in_input, in_ret, in_returns>>
            ELSE InsertInputFails /\ UNCHANGED <<in_typed, in_field, in_sent>>
    /\ UNCHANGED <<in_js, in_keys, insertLocals>>
    /\ UNCHANGED <<driverVars, engineVars, clientVars, wait_seen, newMainVars,
                   domVars, findVars, clickVars>>

NextInsert ==
    \/ \E v \in InsertVariants, n \in 0..1, t \in Texts : InsertBegin(v, n, t)
    \/ \E resp \in {"object", "error", "none"} : InsertResolve(resp)
    \/ \E value \in {"true", "false", "none"} : InsertCall(value)
    \/ \E ok \in BOOLEAN : InsertFocus(ok)
    \/ \E ok \in BOOLEAN : InsertClear(ok)
    \/ \E ok \in BOOLEAN : InsertType(ok)

\* ================================================== WebSocketClient
\* Calls of connect in one behaviour.
MaxConnects == 2
\* The largest value of `retries`.
MaxRetries == 2
\* Calls of send_message, receive_message and close in one behaviour.
MaxOps == 3

\* WebSocketClient.__init__ (lines 54-62).
InitTransport ==
    /\ websocket = "None"
    /\ cn_pc = "idle"
    /\ cn_retries = 0
    /\ cn_attempts = 0
    /\ cn_failed = 0
    /\ cn_out = ""
    /\ cn_calls = 0
    /\ tp_ops = 0
    /\ tp_done = {}

opCounters == <<tp_ops, tp_done>>
connectLocals == <<cn_pc, cn_retries, cn_attempts, cn_failed, cn_out,
                   cn_calls>>

\* Mutant of AttemptsLeft: the loop runs once more, range(0, retries + 1).
AttemptsLeftOneMore(attempts, n) == attempts <= n

\* line 72: `for attempt in range(1, retries + 1)` has a next value.
AttemptsLeft(attempts, n) == attempts < n

\* connect is called (line 64).
Connect(n) ==
    /\ cn_pc = "idle"
    /\ cn_calls < MaxConnects
    /\ cn_calls' = cn_calls + 1
    /\ cn_pc' = "loop"
    /\ cn_retries' = n
    /\ cn_attempts' = 0
    /\ cn_failed' = 0
    /\ cn_out' = ""
    /\ UNCHANGED <<websocket, opCounters>>
    /\ UNCHANGED <<processVars, navVars, pageVars>>
    /\ UNCHANGED <<engineVars, clientVars, wait_seen, newMainVars, domVars,
                   findVars, clickVars, insertVars>>

\* One round of the loop (lines 73-79): websockets.connect returns a
\* connection, which is kept, and connect returns; or it raises, and connect
\* sleeps and goes on.
ConnectAttempt(ok) ==
    /\ cn_pc = "loop"
    /\ AttemptsLeft(cn_attempts, cn_retries)
    /\ cn_attempts' = cn_attempts + 1
    /\ IF ok
       THEN /\ websocket' = "open"
            /\ cn_pc' = "idle"
            /\ cn_out' = "returned"
            /\ UNCHANGED cn_failed
       ELSE /\ cn_failed' = cn_failed + 1
            /\ UNCHANGED <<websocket, cn_pc, cn_out>>
    /\ UNCHANGED <<cn_retries, cn_calls, opCounters>>
    /\ UNCHANGED <<processVars, navVars, pageVars>>
    /\ UNCHANGED <<engineVars, clientVars, wait_seen, newMainVars, domVars,
                   findVars, clickVars, insertVars>>

\* The loop is over (lines 81-82): raise ConnectionError.
ConnectExhausted ==
    /\ cn_pc = "loop"
    /\ ~AttemptsLeft(cn_attempts, cn_retries)
    /\ cn_pc' = "idle"
    /\ cn_out' = "ConnectionError"
    /\ UNCHANGED <<websocket, cn_retries, cn_attempts, cn_failed, cn_calls,
                   opCounters>>
    /\ UNCHANGED <<processVars, navVars, pageVars>>
    /\ UNCHANGED <<engineVars, clientVars, wait_seen, newMainVars, domVars,
                   findVars, clickVars, insertVars>>

\* The record of one call on the client.
Done(op, after, wrote, out) ==
    /\ tp_ops < MaxOps
    /\ tp_ops' = tp_ops + 1
    /\ tp_done' = tp_done \cup
          {[op |-> op, sock |-> websocket, after |-> after, wrote |-> wrote,
            out |-> out]}
    /\ websocket' = after

\* How send_message ends (lines 90-95): without a connection it logs and
\* returns None; websocket.send on a connection that is not open raises
\* ConnectionClosed, which nothing here catches.
SendOutcome(sock) ==
    CASE sock = "None" -> "None"
      [] sock = "open" -> "None"
      [] OTHER         -> "ConnectionClosed"

\* WebSocketClient.send_message.
SendMessage ==
    /\ Done("send_message", websocket, websocket = "open",
            SendOutcome(websocket))
    /\ UNCHANGED connectLocals
    /\ UNCHANGED <<processVars, navVars, pageVars>>
    /\ UNCHANGED <<engineVars, clientVars, wait_seen, newMainVars, domVars,
                   findVars, clickVars, insertVars>>

\* How receive_message ends (lines 103-110): the frame is returned; every
\* exception (ConnectionClosed of recv, AttributeError of None.recv) is
\* caught by `except Exception`, logged, and None is returned.
ReceiveOutcome(sock, readOk) ==
    IF sock = "open" /\ readOk THEN "message" ELSE "None"

\* WebSocketClient.receive_message; a read that errors leaves the
\* connection closed.
ReceiveMessage(readOk) ==
    /\ Done("receive_message",
            IF websocket = "open" /\ ~readOk THEN "peer_closed" ELSE websocket,
            FALSE, ReceiveOutcome(websocket, readOk))
    /\ UNCHANGED connectLocals
    /\ UNCHANGED <<processVars, navVars, pageVars>>
    /\ UNCHANGED <<engineVars, clientVars, wait_seen, newMainVars, domVars,
                   findVars, clickVars, insertVars>>

\* The connection after close (lines 116-120): websocket.close() closes a
\* connection and does nothing on one that is closed; self.websocket keeps
\* the connection object.
AfterClose(sock) == IF sock = "None" THEN "None" ELSE "closed"

\* WebSocketClient.close.
TransportClose ==
    /\ Done("close", AfterClose(websocket), FALSE, "None")
    /\ UNCHANGED connectLocals
    /\ UNCHANGED <<processVars, navVars, pageVars>>
    /\ UNCHANGED <<engineVars, clientVars, wait_seen, newMainVars, domVars,
                   findVars, clickVars, insertVars>>

\* The peer closes the connection.
PeerCloses ==
    /\ websocket = "open"
    /\ websocket' = "peer_closed"
    /\ UNCHANGED <<connectLocals, opCounters>>
    /\ UNCHANGED <<processVars, navVars, pageVars>>
    /\ UNCHANGED <<engineVars, clientVars, wait_seen, newMainVars, domVars,
                   findVars, clickVars, insertVars>>

NextTransport ==
    \/ \E n \in 0..MaxRetries : Connect(n)
    \/ \E ok \in BOOLEAN : ConnectAttempt(ok)
    \/ ConnectExhausted
    \/ SendMessage
    \/ \E ok \in BOOLEAN : ReceiveMessage(ok)
    \/ TransportClose
    \/ PeerCloses

\* ================================================== _process_message
\* Callbacks in the list of one name.
MaxRegistered == 2
\* The largest id of a command.
MaxIds == 2
\* Callback tasks created in one behaviour.
MaxTasks == 2

\* The names NetworkHandler.enable registers callbacks under (lines 19-20).
NotificationNames == {"Network.requestWillBeSent", "Network.responseReceived"}
\* The callbacks: the two of NetworkHandler and a caller's own.
Callbacks == {"_on_request_will_be_sent", "_on_response_received", "callback"}

\* A decoded message: id 0 stands for no 'id' key, method "" for no
\* 'method' key, params "None" for no 'params' key.
Messages ==
    [id : 0..MaxIds, method : NotificationNames \cup {""},
     params : {"None", "params"}]

NoCall == [msg |-> [id |-> 0, method |-> "", params |-> "None"],
           pending |-> {}, tasks |-> 0, popped |-> 0, created |-> <<>>,
           called |-> FALSE]

\* BaseHandler.__init__ (lines 28-29).
InitProcess ==
    /\ pm_listeners = [n \in NotificationNames |-> <<>>]
    /\ pm_pending = {}
    /\ pm_reader = "recv"
    /\ pm_tasks = 0
    /\ pm_last = NoCall

Registered(n) == {pm_listeners[n][i] : i \in 1..Len(pm_listeners[n])}

\* self._event_listeners[name].append(callback).
PmRegister(n, cb) ==
    /\ Len(pm_listeners[n]) < MaxRegistered
    /\ cb \notin Registered(n)
    /\ pm_listeners' = [pm_listeners EXCEPT ![n] = Append(@, cb)]
    /\ pm_last' = NoCall
    /\ UNCHANGED <<pm_pending, pm_reader, pm_tasks>>
    /\ UNCHANGED <<transportVars, navVars, pageVars>>
    /\ UNCHANGED <<engineVars, clientVars, wait_seen, newMainVars, domVars,
                   findVars, clickVars, insertVars>>

\* send_command registers a future under an id (line 87).
PmAddPending(id) ==
    /\ id \notin pm_pending
    /\ pm_pending' = pm_pending \cup {id}
    /\ pm_last' = NoCall
    /\ UNCHANGED <<pm_listeners, pm_reader, pm_tasks>>
    /\ UNCHANGED <<transportVars, navVars, pageVars>>
    /\ UNCHANGED <<engineVars, clientVars, wait_seen, newMainVars, domVars,
                   findVars, clickVars, insertVars>>

\* line 59: `'id' in message and message['id'] in self._pending_requests`.
PmMatchesPending(msg) == msg.id # 0 /\ msg.id \in pm_pending

\* Mutant of Subscribers: the callbacks of every name.
SubscribersOfAnyName(method) ==
    LET a == "Network.requestWillBeSent"
        b == "Network.responseReceived"
    IN  pm_listeners[a] \o pm_listeners[b]

\* line 66: self._event_listeners.get(message['method'], []).
Subscribers(method) == pm_listeners[method]

\* lines 66-67: one task per callback of the list, in its order, each
\* called with message.get('params').
TasksFor(msg) ==
    [i \in 1..Len(Subscribers(msg.method)) |->
        [callback |-> Subscribers(msg.method)[i], params |-> msg.params]]

\* The tasks one call of _process_message creates (lines 59-67).
Created(msg) ==
    IF ~PmMatchesPending(msg) /\ msg.method # "" THEN TasksFor(msg) ELSE <<>>

\* Mutant of ReaderAfterTasks: the callbacks are awaited
\* (`await callback(...)`), so the reader stays in one that does not
\* complete.
ReaderAwaitingCallback(created) ==
    IF Len(created) > 0 THEN "in_callback" ELSE "recv"

\* Where the reader is after _process_message: asyncio.create_task (line
\* 67) does not wait for the task, _process_message returns and the loop
\* is at recv again (lines 48-52).
ReaderAfterTasks(created) == "recv"

\* The reader takes a message and calls _process_message (lines 50-52,
\* 59-67).
PmProcess(msg) ==
    /\ pm_reader = "recv"
    /\ pm_tasks + Len(Created(msg)) <= MaxTasks
    /\ IF PmMatchesPending(msg)
       THEN /\ pm_pending' = pm_pending \ {msg.id}
            /\ pm_last' = [msg |-> msg, pending |-> pm_pending,
                           tasks |-> pm_tasks, popped |-> msg.id,
                           created |-> <<>>, called |-> TRUE]
       ELSE /\ pm_last' = [msg |-> msg, pending |-> pm_pending,
                           tasks |-> pm_tasks, popped |-> 0,
                           created |-> Created(msg), called |-> TRUE]
            /\ UNCHANGED pm_pending
    /\ pm_tasks' = pm_tasks + Len(Created(msg))
    /\ pm_reader' = ReaderAfterTasks(Created(msg))
    /\ UNCHANGED pm_listeners
    /\ UNCHANGED <<transportVars, navVars, pageVars>>
    /\ UNCHANGED <<engineVars, clientVars, wait_seen, newMainVars, domVars,
                   findVars, clickVars, insertVars>>

NextProcess ==
    \/ \E n \in NotificationNames, cb \in Callbacks : PmRegister(n, cb)
    \/ \E id \in 1..MaxIds : PmAddPending(id)
    \/ \E msg \in Messages : PmProcess(msg)

\* ============================================================ navigate
\* Calls of navigate in one behaviour.
MaxNavigations == 2

InitNavigate ==
    /\ nav_pc = "idle"
    /\ nav_fails = FALSE
    /\ nav_resp = "None"
    /\ nav_calls = 0
    /\ nav_returns = {}

\* What send_request can return to navigate (base_save.py lines 33-37): the
\* next frame of the socket as text, which is the reply to Page.navigate
\* ("reply_ok", or "reply_error" when it carries errorText), a notification
\* that came first ("event"), or None when recv raised.
NavReply(fails) == IF fails THEN "reply_error" ELSE "reply_ok"
NavResponses(fails) == {NavReply(fails), "event", "None"}

\* The lines at which wait_for_page_load ends: 57 the overall timeout,
\* 69 and 105 settled, 76 an undecodable frame, 78 an exception that
\* nothing catches.
WaitExits == {57, 69, 76, 78, 105}

\* How navigate ends (lines 39-41): the value of the wait is dropped and
\* `response` is returned; an exception of the wait passes through.
NavOutcome(resp, line) ==
    IF line = 78
    THEN [kind |-> "raised", value |-> "AttributeError"]
    ELSE [kind |-> "returned", value |-> resp]

\* navigate sends Page.navigate (lines 34-35).
NavBegin(fails) ==
    /\ nav_pc \in {"idle", "done"}
    /\ nav_calls < MaxNavigations
    /\ nav_calls' = nav_calls + 1
    /\ nav_pc' = "sent"
    /\ nav_fails' = fails
    /\ nav_resp' = "None"
    /\ UNCHANGED nav_returns
    /\ UNCHANGED <<transportVars, processVars, pageVars>>
    /\ UNCHANGED <<engineVars, clientVars, wait_seen, newMainVars, domVars,
                   findVars, clickVars, insertVars>>

\* send_request returns the next frame (lines 35-36).
NavResponse(resp) ==
    /\ nav_pc = "sent"
    /\ resp \in NavResponses(nav_fails)
    /\ nav_resp' = resp
    /\ nav_pc' = "wait"
    /\ UNCHANGED <<nav_fails, nav_calls, nav_returns>>
    /\ UNCHANGED <<transportVars, processVars, pageVars>>
    /\ UNCHANGED <<engineVars, clientVars, wait_seen, newMainVars, domVars,
                   findVars, clickVars, insertVars>>

\* wait_for_page_load ends and navigate with it (lines 39-41).
NavWaited(line) ==
    /\ nav_pc = "wait"
    /\ nav_pc' = "done"
    /\ nav_returns' = nav_returns \cup
          {[fails |-> nav_fails, line |-> line,
            outcome |-> NavOutcome(nav_resp, line)]}
    /\ UNCHANGED <<nav_fails, nav_resp, nav_calls>>
    /\ UNCHANGED <<transportVars, processVars, pageVars>>
    /\ UNCHANGED <<engineVars, clientVars, wait_seen, newMainVars, domVars,
                   findVars, clickVars, insertVars>>

NextNavigate ==
    \/ \E fails \in BOOLEAN : NavBegin(fails)
    \/ \E resp \in {"reply_ok", "reply_error", "event", "None"} :
          NavResponse(resp)
    \/ \E line \in WaitExits : NavWaited(line)

\* ============================================== the loading-frame set
\* Notifications one wait reads in one behaviour.
MaxSeen == 3

\* The waits of PageHandler: wait_for_page_load and wait_for_page_dom_load.
PageWaits == {"load", "dom"}

\* The notifications a wait can read; frameId "" stands for no frameId.
Notifications ==
    {[name |-> n, frameId |-> f] : n \in FrameEvents, f \in FrameIds \cup {""}}
    \cup {[name |-> n, frameId |-> ""] :
            n \in {"Page.loadEventFired", "DOM.childNodeInserted"}}

InitFrames ==
    /\ ls_wait = "idle"
    /\ ls_frames = {}
    /\ ls_seen = <<>>

\* A set that only grows.
ActiveFramesNeverDiscarded(wait, frames, e) ==
    IF e.name = "Page.frameStartedLoading" /\ e.frameId # ""
    THEN frames \cup {e.frameId}
    ELSE frames

\* active_frames after a notification: lines 81-97 of wait_for_page_load,
\* where the name is tested and then the frameId, and lines 155-167 of
\* wait_for_page_dom_load, where both are tested at once.
ActiveFramesAfter(wait, frames, e) ==
    IF wait = "load"
    THEN CASE e.name = "Page.frameStartedLoading" ->
                IF e.frameId # "" THEN frames \cup {e.frameId} ELSE frames
           [] e.name = "Page.frameStoppedLoading" ->
                IF e.frameId # "" THEN frames \ {e.frameId} ELSE frames
           [] e.name = "Page.frameDetached" ->
                IF e.frameId # "" THEN frames \ {e.frameId} ELSE frames
           [] OTHER -> frames
    ELSE CASE e.name = "Page.frameStartedLoading" /\ e.frameId # "" ->
                frames \cup {e.frameId}
           [] e.name = "Page.frameStoppedLoading" /\ e.frameId # "" ->
                frames \ {e.frameId}
           [] e.name = "Page.frameDetached" /\ e.frameId # "" ->
                frames \ {e.frameId}
           [] OTHER -> frames

\* A wait starts (lines 49-51 and 118-122).
LsBegin(wait) ==
    /\ ls_wait = "idle"
    /\ ls_wait' = wait
    /\ ls_frames' = {}
    /\ ls_seen' = <<>>
    /\ UNCHANGED <<otherVars, commandVars, loadVars, centerVars,
                   historyVars>>

\* The wait reads a notification.
LsRead(e) ==
    /\ ls_wait \in PageWaits
    /\ Len(ls_seen) < MaxSeen
    /\ ls_seen' = Append(ls_seen, e)
    /\ ls_frames' = ActiveFramesAfter(ls_wait, ls_frames, e)
    /\ UNCHANGED ls_wait
    /\ UNCHANGED <<otherVars, commandVars, loadVars, centerVars,
                   historyVars>>

\* The wait leaves its loop (lines 55-57, 67-69, 99-101; 128-135, 180-181).
LsEnd ==
    /\ ls_wait \in PageWaits
    /\ ls_wait' = "idle"
    /\ UNCHANGED <<ls_frames, ls_seen>>
    /\ UNCHANGED <<otherVars, commandVars, loadVars, centerVars,
                   historyVars>>

NextFrames ==
    \/ \E w \in PageWaits : LsBegin(w)
    \/ \E e \in Notifications : LsRead(e)
    \/ LsEnd

\* ================================================ send_command in steps
\* send_command calls in one behaviour.
MaxCommands == 2

\* A call: where it is, whether its frame is on the wire and answered, the
\* state of its future, and how it ended.
\*   pc  : "send" (suspended at line 90), "wait" (suspended at line 91),
\*         "ended";
\*   fut : "pending", "result", "error", "cancelled".
NewCommand ==
    [pc |-> "send", onwire |-> FALSE, answered |-> FALSE, fut |-> "pending",
     out |-> "none"]

NoReply == [called |-> FALSE, id |-> 0, pc |-> "none", had |-> FALSE]

InitCommand ==
    /\ sc_calls = <<>>
    /\ sc_pending = {}
    /\ sc_reader = "running"
    /\ sc_last = NoReply

\* A table that takes no entry.
PendingWithoutRegister(table, id) == table

\* line 87: self._pending_requests[request_id] = future.
PendingAfterRegister(table, id) == table \cup {id}

\* lines 93 and 96: del self._pending_requests[request_id], which raises
\* KeyError in place of the handler's own exception when the id is gone.
DelOutcome(table, id, raised) == IF id \in table THEN raised ELSE "KeyError"

\* lines 70-87: on an open connection the call takes the next id and
\* registers its future, then suspends in connection.send (line 90).
ScEnter ==
    /\ Len(sc_calls) < MaxCommands
    /\ sc_calls' = Append(sc_calls, NewCommand)
    /\ sc_pending' = PendingAfterRegister(sc_pending, Len(sc_calls) + 1)
    /\ UNCHANGED <<sc_reader, sc_last>>
    /\ UNCHANGED <<otherVars, framesVars, loadVars, centerVars,
                   historyVars>>

\* The transport writes the frame of call c while send is still awaited.
ScWrite(c) ==
    /\ c \in 1..Len(sc_calls)
    /\ sc_calls[c].pc = "send"
    /\ ~sc_calls[c].onwire
    /\ sc_calls' = [sc_calls EXCEPT ![c].onwire = TRUE]
    /\ UNCHANGED <<sc_pending, sc_reader, sc_last>>
    /\ UNCHANGED <<otherVars, framesVars, loadVars, centerVars,
                   historyVars>>

\* connection.send returns (line 90) and the call suspends in wait_for
\* (line 91), or send raises and lines 95-97 run.
ScSent(c, ok) ==
    /\ c \in 1..Len(sc_calls)
    /\ sc_calls[c].pc = "send"
    /\ ok => sc_calls[c].onwire
    /\ IF ok
       THEN /\ sc_calls' = [sc_calls EXCEPT ![c].pc = "wait"]
            /\ UNCHANGED sc_pending
       ELSE /\ sc_calls' = [sc_calls EXCEPT ![c].pc = "ended",
                  ![c].out = DelOutcome(sc_pending, c, "ConnectionError")]
            /\ sc_pending' = sc_pending \ {c}
    /\ UNCHANGED <<sc_reader, sc_last>>
    /\ UNCHANGED <<otherVars, framesVars, loadVars, centerVars,
                   historyVars>>

\* The reader reads the reply to the frame of call c (lines 50-52, 59-64).
\* A pending id is popped and its future resolved; set_result and
\* set_exception on a cancelled future raise InvalidStateError, which
\* _handle_messages does not catch (line 53). A reply whose id is not
\* pending has no 'method' and is dropped (line 65).
ScReply(c, kind) ==
    /\ c \in 1..Len(sc_calls)
    /\ sc_reader = "running"
    /\ sc_calls[c].onwire
    /\ ~sc_calls[c].answered
    /\ sc_last' = [called |-> TRUE, id |-> c, pc |-> sc_calls[c].pc,
                   had |-> c \in sc_pending]
    /\ sc_pending' = sc_pending \ {c}
    /\ IF c \in sc_pending
       THEN IF sc_calls[c].fut = "pending"
            THEN /\ sc_calls' = [sc_calls EXCEPT ![c].answered = TRUE,
                                                 ![c].fut = kind]
                 /\ UNCHANGED sc_reader
            ELSE /\ sc_calls' = [sc_calls EXCEPT ![c].answered = TRUE]
                 /\ sc_reader' = "crashed"
       ELSE /\ sc_calls' = [sc_calls EXCEPT ![c].answered = TRUE]
            /\ UNCHANGED sc_reader
    /\ UNCHANGED <<otherVars, framesVars, loadVars, centerVars,
                   historyVars>>

\* wait_for returns the result (line 91), or raises the exception of the
\* future, which line 95 catches: del (line 96) then finds the id popped.
ScResume(c) ==
    /\ c \in 1..Len(sc_calls)
    /\ sc_calls[c].pc = "wait"
    /\ sc_calls[c].fut \in {"result", "error"}
    /\ sc_calls' = [sc_calls EXCEPT ![c].pc = "ended",
          ![c].out = IF sc_calls[c].fut = "result" THEN "result"
                     ELSE DelOutcome(sc_pending, c, "ConnectionError")]
    /\ sc_pending' = IF sc_calls[c].fut = "result" THEN sc_pending
                     ELSE sc_pending \ {c}
    /\ UNCHANGED <<sc_reader, sc_last>>
    /\ UNCHANGED <<otherVars, framesVars, loadVars, centerVars,
                   historyVars>>

\* wait_for times out (lines 92-94): it cancels the future.
ScTimeout(c) ==
    /\ c \in 1..Len(sc_calls)
    /\ sc_calls[c].pc = "wait"
    /\ sc_calls[c].fut = "pending"
    /\ sc_calls' = [sc_calls EXCEPT ![c].pc = "ended", ![c].fut = "cancelled",
          ![c].out = DelOutcome(sc_pending, c, "TimeoutError")]
    /\ sc_pending' = sc_pending \ {c}
    /\ UNCHANGED <<sc_reader, sc_last>>
    /\ UNCHANGED <<otherVars, framesVars, loadVars, centerVars,
                   historyVars>>

\* The task that awaits send_command is cancelled while the call is
\* suspended at line 90 or 91: asyncio.CancelledError is a BaseException,
\* neither except clause of lines 92-97 takes it, and it cancels a future
\* that is still pending.
ScCancel(c) ==
    /\ c \in 1..Len(sc_calls)
    /\ sc_calls[c].pc \in {"send", "wait"}
    /\ sc_calls' = [sc_calls EXCEPT ![c].pc = "ended",
          ![c].out = "CancelledError",
          ![c].fut = IF sc_calls[c].fut = "pending" THEN "cancelled"
                     ELSE sc_calls[c].fut]
    /\ UNCHANGED <<sc_pending, sc_reader, sc_last>>
    /\ UNCHANGED <<otherVars, framesVars, loadVars, centerVars,
                   historyVars>>

NextCommand ==
    \/ ScEnter
    \/ \E c \in 1..MaxCommands : ScWrite(c)
    \/ \E c \in 1..MaxCommands, ok \in BOOLEAN : ScSent(c, ok)
    \/ \E c \in 1..MaxCommands, kind \in {"result", "error"} :
          ScReply(c, kind)
    \/ \E c \in 1..MaxCommands : ScResume(c)
    \/ \E c \in 1..MaxCommands : ScTimeout(c)
    \/ \E c \in 1..MaxCommands : ScCancel(c)

\* ================================================ navigate and its page
\* Calls of navigate in one behaviour.
MaxLoads == 2

Notification(n, f) == [kind |-> "event", name |-> n, frameId |-> f]
NavigateReply == [kind |-> "reply", name |-> "", frameId |-> ""]

\* What a page that loads emits after Page.navigate: its load event, with
\* or without a frame that starts and stops loading around it.
PageScripts ==
    {<<Notification("Page.loadEventFired", "")>>,
     <<Notification("Page.frameStartedLoading", "A"),
       Notification("Page.frameStoppedLoading", "A"),
       Notification("Page.loadEventFired", "")>>,
     <<Notification("Page.frameStartedLoading", "A"),
       Notification("Page.loadEventFired", ""),
       Notification("Page.frameStoppedLoading", "A")>>}

\* The frames of `script` with the reply to Page.navigate after the first
\* k of them.
StreamOf(script, k) ==
    SubSeq(script, 1, k) \o <<NavigateReply>>
        \o SubSeq(script, k + 1, Len(script))

WaitLocals == [active_frames |-> {}, load_event_fired |-> FALSE, line |-> 0]

InitLoad ==
    /\ nl_pc = "idle"
    /\ nl_queue = <<>>
    /\ nl_resp = NavigateReply
    /\ nl_wait = WaitLocals
    /\ nl_calls = 0

\* navigate sends Page.navigate (lines 34-35, base_save.py lines 25-33);
\* the peer answers and the page emits its notifications, the reply after
\* the first k of them. Frames an earlier wait left unread come first.
NlBegin(script, k) ==
    /\ nl_pc \in {"idle", "done"}
    /\ nl_calls < MaxLoads
    /\ k \in 0..Len(script)
    /\ nl_calls' = nl_calls + 1
    /\ nl_pc' = "sent"
    /\ nl_queue' = nl_queue \o StreamOf(script, k)
    /\ UNCHANGED <<nl_resp, nl_wait>>
    /\ UNCHANGED <<otherVars, framesVars, commandVars, centerVars,
                   historyVars>>

\* send_request returns the next frame of the socket (base_save.py lines
\* 36-37) and wait_for_page_load starts (lines 39, 48-51).
NlResponse ==
    /\ nl_pc = "sent"
    /\ nl_resp' = Head(nl_queue)
    /\ nl_queue' = Tail(nl_queue)
    /\ nl_wait' = WaitLocals
    /\ nl_pc' = "wait"
    /\ UNCHANGED nl_calls
    /\ UNCHANGED <<otherVars, framesVars, commandVars, centerVars,
                   historyVars>>

\* lines 78-101 on a frame.
WaitLocalsAfter(w, f) ==
    [w EXCEPT
       !.active_frames =
          IF f.kind = "event" /\ f.frameId # ""
          THEN CASE f.name = "Page.frameStartedLoading" -> @ \cup {f.frameId}
                 [] f.name \in {"Page.frameStoppedLoading",
                                "Page.frameDetached"} -> @ \ {f.frameId}
                 [] OTHER -> @
          ELSE @,
       !.load_event_fired =
          @ \/ (f.kind = "event" /\ f.name = "Page.loadEventFired")]

\* The wait reads the next frame (lines 60-65, 78-105): it leaves at line
\* 105 when the load event has fired and no frame is loading.
NlRead ==
    /\ nl_pc = "wait"
    /\ nl_queue # <<>>
    /\ nl_queue' = Tail(nl_queue)
    /\ LET w == WaitLocalsAfter(nl_wait, Head(nl_queue))
       IN  IF Settled(w.load_event_fired, w.active_frames)
           THEN /\ nl_wait' = [w EXCEPT !.line = 105]
                /\ nl_pc' = "done"
           ELSE /\ nl_wait' = w
                /\ UNCHANGED nl_pc
    /\ UNCHANGED <<nl_resp, nl_calls>>
    /\ UNCHANGED <<otherVars, framesVars, commandVars, centerVars,
                   historyVars>>

\* Nothing is left to read: every receive times out after one second
\* (lines 60, 66-70); the wait leaves at line 69 when it is settled and
\* otherwise goes round until the overall timeout (lines 54-57).
NlSilence ==
    /\ nl_pc = "wait"
    /\ nl_queue = <<>>
    /\ nl_wait' = [nl_wait EXCEPT !.line =
          IF Settled(nl_wait.load_event_fired, nl_wait.active_frames)
          THEN 69 ELSE 57]
    /\ nl_pc' = "done"
    /\ UNCHANGED <<nl_queue, nl_resp, nl_calls>>
    /\ UNCHANGED <<otherVars, framesVars, commandVars, centerVars,
                   historyVars>>

NextLoad ==
    \/ \E script \in PageScripts : \E k \in 0..Len(script) : NlBegin(script, k)
    \/ NlResponse
    \/ NlRead
    \/ NlSilence

\* ============================================ get_center_coordinates
\* Coordinates are the even numbers up to 2 * MaxCoord, so that the
\* division of a sum of two of them by 2 is exact.
MaxCoord == 2
Coordinates == {2 * k : k \in 0..MaxCoord}

\* A content quad as DOM.getBoxModel gives it: x1, y1, x2, y2, x3, y3, x4,
\* y4, the corners in order around the quad.
Quads == [1..8 -> Coordinates]

\* The argument: None or an empty dict ("None"), a dict without the key
\* content ("no_content"), or a dict with it ("dict"); a content of four
\* numbers is too short for the index 5.
BoxModel(kind, content) == [kind |-> kind, content |-> content]
BoxModels ==
    {BoxModel("None", <<>>), BoxModel("no_content", <<>>)}
    \cup {BoxModel("dict", q) : q \in Quads}
    \cup {BoxModel("dict", SubSeq(q, 1, 4)) : q \in Quads}

\* What the call returns: False, or the pair x, y.
CenterResult(kind, x, y) == [kind |-> kind, x |-> x, y |-> y]

InitCenter ==
    /\ gc_model = BoxModel("None", <<>>)
    /\ gc_result = CenterResult("not called", 0, 0)

\* lines 38-49; model["content"][i] of Python is content[i + 1] here.
GetCenterCoordinates(model) ==
    IF model.kind = "None" THEN CenterResult("False", 0, 0)
    ELSE IF model.kind = "no_content" THEN CenterResult("False", 0, 0)
    ELSE IF Len(model.content) < 6 THEN CenterResult("False", 0, 0)
    ELSE CenterResult("pair",
                      (model.content[1] + model.content[3]) \div 2,
                      (model.content[2] + model.content[6]) \div 2)

\* One call of get_center_coordinates.
GcCall(model) ==
    /\ gc_result.kind = "not called"
    /\ gc_model' = model
    /\ gc_result' = GetCenterCoordinates(model)
    /\ UNCHANGED <<otherVars, framesVars, commandVars, loadVars,
                   historyVars>>

NextCenter == \E model \in BoxModels : GcCall(model)

\* ============================================== navigation history
\* Entries the history holds at most.
MaxEntries == 3

Urls == {"a", "b"}
HistoryHandlers == {"PageHandler", "NavigationHandler"}

NotCalled == [called |-> FALSE, ret |-> "", shown |-> ""]

\* A new tab: one entry, which is displayed.
InitHistory ==
    /\ hs_entries = <<"about:blank">>
    /\ hs_index = 0
    /\ hs_got = NotCalled

\* The url of the entry at currentIndex: the page displayed.
Displayed == hs_entries[hs_index + 1]

\* entries[-1] of Python: the last entry (page_handler.py line 292,
\* navigation_handler.py line 29).
UrlOfLastEntry(entries, index) == entries[Len(entries)]

\* Page.navigate (page_handler.py lines 32-35): the browser drops the
\* entries after the current one and adds an entry for the url.
HsNavigate(u) ==
    /\ hs_index + 2 <= MaxEntries
    /\ hs_entries' = Append(SubSeq(hs_entries, 1, hs_index + 1), u)
    /\ hs_index' = hs_index + 1
    /\ UNCHANGED hs_got
    /\ UNCHANGED <<otherVars, framesVars, commandVars, loadVars, centerVars>>

\* navigate_back (navigation_handler.py lines 31-48): with a history and
\* current_index > 0 it sends Page.navigateToHistoryEntry for the entry
\* before the current one; without a history (lines 22-24, 34-35) or at
\* the first entry it returns False.
HsBack(ok) ==
    /\ hs_index' = IF ok /\ hs_index > 0 THEN hs_index - 1 ELSE hs_index
    /\ UNCHANGED <<hs_entries, hs_got>>
    /\ UNCHANGED <<otherVars, framesVars, commandVars, loadVars, centerVars>>

\* navigate_forward (lines 50-67), the same towards the last entry.
HsForward(ok) ==
    /\ hs_index' = IF ok /\ hs_index < Len(hs_entries) - 1
                   THEN hs_index + 1 ELSE hs_index
    /\ UNCHANGED <<hs_entries, hs_got>>
    /\ UNCHANGED <<otherVars, framesVars, commandVars, loadVars, centerVars>>

\* get_current_url of handler h (page_handler.py lines 288-292,
\* navigation_handler.py lines 15-29). When the response is not the reply
\* to Page.getNavigationHistory, PageHandler raises out of json.loads or
\* the subscripts and NavigationHandler returns None.
HsGetCurrentUrl(h, ok) ==
    /\ hs_got' = [called |-> TRUE,
                  ret |-> IF ok THEN UrlOfLastEntry(hs_entries, hs_index)
                          ELSE IF h = "PageHandler" THEN "raised"
                          ELSE "None",
                  shown |-> Displayed]
    /\ UNCHANGED <<hs_entries, hs_index>>
    /\ UNCHANGED <<otherVars, framesVars, commandVars, loadVars, centerVars>>

NextHistory ==
    \/ \E u \in Urls : HsNavigate(u)
    \/ \E ok \in BOOLEAN : HsBack(ok)
    \/ \E ok \in BOOLEAN : HsForward(ok)
    \/ \E h \in HistoryHandlers, ok \in BOOLEAN : HsGetCurrentUrl(h, ok)

\* ========================================================= behaviours
NextEngine ==
    \/ \E h \in handlers : Start(h)
    \/ \E h \in handlers : Stop(h)
    \/ \E h \in handlers, n \in EventNames : AddEventListener(h, n)
    \/ Close
    \/ \E h \in handlers, ok \in BOOLEAN : SendCommand(h, ok)
    \/ \E h \in handlers : \E f \in PeerFrames : HandleMessage(h, f)
    \/ \E h \in handlers : HandleClosed(h)
    \/ \E c \in 1..MaxCalls : Timeout(c)
    \/ \E c \in 1..MaxCalls : Resume(c)

\* A session as ChromeDriver.connect builds it: several handlers, one socket.
InitOps ==
    /\ InitNewMain
    /\ InitDomWait
    /\ InitFind
    /\ InitClick
    /\ InitInsert
    /\ InitTransport
    /\ InitProcess
    /\ InitNavigate
    /\ InitFrames
    /\ InitCommand
    /\ InitLoad
    /\ InitCenter
    /\ InitHistory

Init == InitEngine(Handlers) /\ InitClient /\ InitOps

Next == NextEngine

Spec == Init /\ [][Next]_vars

\* One BaseHandler alone on its connection.
InitOneHandler == InitEngine({"NetworkHandler"}) /\ InitClient /\ InitOps

SpecOneHandler == InitOneHandler /\ [][Next]_vars

\* The event loop runs every ready task and fires every armed timer.
Fairness ==
    /\ \A c \in 1..MaxCalls : WF_vars(Timeout(c))
    /\ \A c \in 1..MaxCalls : WF_vars(Resume(c))

FairSpec == InitOneHandler /\ [][Next]_vars /\ Fairness

\* Callers of the facade handlers built on one WebSocketClient.
SpecClient == Init /\ [][NextRequests]_vars

\* One call of wait_for_page_load on a WebSocketClient.
SpecWait == Init /\ [][NextWait]_vars

\* One call of each variant of wait_for_page_load, each on its own client.
NextWaits == NextWait \/ NextWaitNew

SpecWaits == Init /\ [][NextWaits]_vars

\* Calls of wait_for_page_dom_load on a WebSocketClient.
SpecDomWait == Init /\ [][NextDomWait]_vars

\* The clock advances, the timer of asyncio.wait_for (line 139) fires, and
\* the coroutine of the wait is run whenever it is ready.
DomFairness ==
    /\ WF_vars(DomExpire)
    /\ WF_vars(DomTick)
    /\ WF_vars(DomTop)
    /\ WF_vars(DomQuiet)
    /\ WF_vars(DomClosed)

FairSpecDomWait == Init /\ [][NextDomWait]_vars /\ DomFairness

\* One call of find_element_by_xpath.
SpecFind == Init /\ [][NextFind]_vars

\* Calls of click_element.
SpecClick == Init /\ [][NextClick]_vars

\* Calls of insert_text.
SpecInsert == Init /\ [][NextInsert]_vars

\* Calls on one WebSocketClient.
SpecTransport == Init /\ [][NextTransport]_vars

\* Calls of _process_message on one handler.
SpecProcess == Init /\ [][NextProcess]_vars

\* Calls of navigate.
SpecNavigate == Init /\ [][NextNavigate]_vars

\* The frame bookkeeping of the two waits of main/handlers/page_handler.py.
SpecFrames == Init /\ [][NextFrames]_vars

\* Calls of send_command on one BaseHandler, step by step.
SpecCommand == Init /\ [][NextCommand]_vars

\* Calls of navigate on a page that fires its load event.
SpecLoad == Init /\ [][NextLoad]_vars

\* One call of get_center_coordinates on any box model.
SpecCenter == Init /\ [][NextCenter]_vars

\* Navigations in the history of one page and calls of get_current_url.
SpecHistory == Init /\ [][NextHistory]_vars

\* ============================================================== claims

\* C1: on one BaseHandler, every send_command call that returns a result
\* returns the payload of the reply the peer made to that call's own
\* command, whose id is the id the call sent, whatever the order of the
\* replies and the notifications between them.
C1_EachCallGetsItsOwnReply ==
    \A c \in CallIds :
        calls[c].out = "result" =>
            /\ calls[c].outVal = c
            /\ Reply("result", calls[c].outVal).id = calls[c].id

\* The second call got its result while the first was still waiting and a
\* notification had been dispatched.
C1_Witness ==
    /\ Len(calls) = 2
    /\ calls[2].out = "result"
    /\ calls[1].pc = "waiting" /\ calls[1].fut = "pending"
    /\ Len(started) > 0

C5_TimedOutIdIsDead ==
    [][\A c \in CallIds :
          calls[c].out = "TimeoutError" =>
            /\ Len(calls') > Len(calls) =>
                 calls'[Len(calls')].id # calls[c].id
            /\ (c \notin answered /\ c \in answered') =>
                 \A d \in CallIds : calls'[d].fut = calls[d].fut]_vars

\* C6: a call that is pending when the connection has closed and the reader
\* of its handler has observed the close ends with ConnectionError.
C6_CloseFailsPending ==
    [][\A c \in CallIds :
          (closed /\ reader[calls[c].h] = "closed"
             /\ calls[c].pc = "waiting" /\ calls[c].fut = "pending"
             /\ calls'[c].pc = "done")
          => calls'[c].out = "ConnectionError"]_vars

\* C7: every send_command call that is suspended eventually ends, and every
\* id in a pending table eventually leaves it, whatever the peer does.
C7_EveryCallEnds ==
    /\ \A c \in 1..MaxCalls :
          (c \in CallIds /\ calls[c].pc = "waiting")
             ~> (c \in CallIds /\ calls[c].pc = "done")
    /\ \A h \in Handlers : \A i \in 1..MaxCalls :
          (i \in pending[h]) ~> (i \notin pending[h])

\* A call ended although the connection closed under it and the reader left.
C7_Witness ==
    \E c \in CallIds :
        /\ calls[c].sent /\ calls[c].pc = "done"
        /\ closed
        /\ reader[calls[c].h] = "closed"
        /\ c \notin answered

\* C8: a call whose reply carried an error payload ends with a command
\* error that holds the browser's message.
C8_ErrorReplyIsCommandError ==
    \A c \in CallIds :
        (calls[c].pc = "done" /\ calls[c].fut = "exception") =>
            /\ calls[c].out = "CommandError"
            /\ calls[c].outVal = calls[c].val

\* C9: a frame that is not valid JSON never ends the reader.
C9_ReaderSurvivesBadFrame ==
    \A h \in handlers : reader[h] # "parse_error"

\* C2: the response send_request returns, when it is a reply or a
\* notification read from the socket, is the reply to the command this call
\* sent, carrying this call's id.
C2_ResponseIsOwnReply ==
    \A r \in ReqIds :
        (reqs[r].pc = "done" /\ reqs[r].resp.kind \in {"reply", "event"}) =>
            /\ reqs[r].resp.kind = "reply"
            /\ reqs[r].resp.id = reqs[r].id
            /\ reqs[r].resp.cmd = reqs[r].w

\* C3: the ids of the commands written to one connection strictly increase
\* in send order, whichever handler object sent them.
C3_WireIdsIncrease ==
    \A i, j \in 1..Len(wire) : i < j => wire[i].id < wire[j].id

\* C10: wait_for_page_load has left its loop otherwise than by the overall
\* timeout exactly when the load event was observed and the loading-frame
\* set is empty.
C10_EarlyReturnIffSettled ==
    /\ (wait_pc \in {"returned", "raised"} /\ broke_at # 57)
          => Settled(load_event_fired, active_frames)
    /\ wait_pc \in {"top", "recv"}
          => ~Settled(load_event_fired, active_frames)

\* C11: a page-load wait that has read only Page.frameStartedLoading and
\* Page.frameStoppedLoading notifications leaves its loop by the overall
\* timeout only, in main (line 57) and in new_main (line 53).
C11_FrameEventsAloneTimeOut ==
    /\ (wait_seen = "frames" /\ wait_pc = "returned") => broke_at = 57
    /\ (nm_seen = "frames" /\ nm_pc = "returned") => nm_broke_at = 53

\* C12: when wait_for_page_load left its loop by the overall timeout while
\* still loading, the value it returns is an outcome that says so, and it
\* differs from the value of a settled return (line 105) with equal locals.
C12_TimeoutIsReported ==
    (/\ wait_pc = "returned" /\ broke_at = 57
     /\ ~Settled(load_event_fired, active_frames))
    => /\ WaitResult(57, load_event_fired, active_frames).kind = "outcome"
       /\ WaitResult(57, load_event_fired, active_frames)
            # WaitResult(105, TRUE, {})

\* C13: at the top of the loop of wait_for_page_dom_load, when no tracked
\* event has been read for inactivity_timeout and the overall timeout has
\* not elapsed, the call leaves the loop by inactivity (line 135), whatever
\* untracked frames were read meanwhile.
C13_InactivityIgnoresUntracked ==
    [][(/\ dom_pc = "top" /\ ~dom_expired
        /\ quiet_tracked >= InactivityTicks
        /\ dom_pc' # dom_pc)
       => (dom_pc' = "returned" /\ dom_broke_at' = 135)]_vars

\* C14: a result returned after the overall timeout (line 130) is never
\* equal to a result returned by inactivity (line 135).
C14_ResultNamesExit ==
    \A a, b \in dom_returns :
        (a.line = 130 /\ b.line = 135) => a.result # b.result

\* C15: once DOM.performSearch was answered with resultCount == 0, the
\* lookup sends no DOM.getSearchResults, and it returns None.
C15_NoResultsNoPagination ==
    fx_zero =>
        /\ \A i \in 1..Len(fx_sent) : fx_sent[i] # "DOM.getSearchResults"
        /\ fx_pc = "done" => fx_ret = "None"

\* C16: once a command timeout has passed since DOM.getSearchResults was
\* sent, get_search_results starts no further round of its loop.
C16_DrainIsBounded ==
    [][(fx_late /\ fx_pc \in {"results", "drain"}) => fx_pc' # "drain"]_vars

\* C17: what click_element returns for a handle without a box model is
\* never what it returns for a generic or a protocol failure.
C17_NoGeometryIsDistinct ==
    \A a, b \in ck_returns :
        (a.cause = "no_geometry" /\ b.cause \in {"generic", "protocol"})
        => a.ret # b.ret

\* C18: click_element never returns True for a stale handle.
C18_StaleHandleNeverSucceeds ==
    \A a \in ck_returns : a.stale => a.ret # "True"

\* C19: when the script fast path of insert_text has failed for an element
\* with a node id, the keyboard emulation has been run, and when it
\* succeeded it has typed the text of the call and the call returns True.
C19_FallbackRunsWithSameText ==
    (in_pc = "done" /\ in_js = "failed") =>
        /\ in_input # ""
        /\ in_input = "ok" => (in_typed = in_text /\ in_ret = "True")

\* DOMHandler.insert_text returned True through the keyboard emulation.
C19_Witness ==
    /\ in_pc = "done"
    /\ in_variant = "DOMHandler"
    /\ in_js = "failed"
    /\ in_input = "ok"
    /\ in_typed = <<"a", "b">>
    /\ in_ret = "True"

\* C20: insert_text on an element with a node id returns False exactly
\* when the script fast path and the keyboard emulation both failed.
C20_FailureIffAllFailed ==
    (in_pc = "done" /\ in_node # 0) =>
        (in_ret = "False" <=> (in_js = "failed" /\ in_input = "failed"))

\* C21: for one text, a call of insert_text in which the script fast path
\* ran to completion and a call in which the keyboard emulation ran to
\* completion leave the same content in the field and return the same value.
C21_PathsLeaveSameContent ==
    \A a, b \in in_returns :
        (a.text = b.text /\ a.js = "ok" /\ b.input = "ok")
        => (a.field = b.field /\ a.ret = b.ret)

\* C22: connect(retries = n) calls websockets.connect at most n times; the
\* call that returns a connection is the last one, connect returns and the
\* client holds the open connection; connect raises ConnectionError exactly
\* when n calls were made and all of them raised.
C22_ConnectRetries ==
    [][cn_pc = "loop" =>
         /\ cn_attempts' <= cn_retries
         /\ (cn_attempts' > cn_attempts /\ cn_failed' = cn_failed)
              => (cn_pc' = "idle" /\ cn_out' = "returned"
                  /\ websocket' = "open")
         /\ cn_pc' = "idle" =>
              (cn_out' = "ConnectionError"
                 <=> (cn_attempts' = cn_retries /\ cn_failed' = cn_retries))
         /\ cn_pc' = "idle" => cn_out' \in {"returned", "ConnectionError"}]_vars

\* connect(retries = 2) has returned from its second attempt, the first
\* having failed, and the client holds the open connection.
C22_Witness ==
    /\ cn_pc = "idle" /\ cn_out = "returned"
    /\ cn_retries = 2 /\ cn_attempts = 2 /\ cn_failed = 1
    /\ websocket = "open"

\* C23: send_message on a client that has no connection raises
\* ConnectionError and writes no frame.
C23_SendUnconnectedRaises ==
    \A r \in tp_done :
        (r.op = "send_message" /\ r.sock = "None")
        => (r.out = "ConnectionError" /\ ~r.wrote)

\* C24: receive_message on a connection the peer has closed, or whose read
\* errors, ends with ConnectionError or ConnectionClosed and returns nothing.
C24_ReceiveClosedRaises ==
    \A r \in tp_done :
        (r.op = "receive_message" /\ r.after = "peer_closed")
        => r.out \in {"ConnectionError", "ConnectionClosed"}

\* C25: a close after a close leaves the client as it was and raises
\* nothing, and every send_message and receive_message after close ends
\* with an error.
C25_CloseIdempotentThenFailFast ==
    \A r \in tp_done :
        /\ (r.op = "close" /\ r.sock = "closed")
             => (r.after = "closed" /\ r.out = "None")
        /\ (r.op \in {"send_message", "receive_message"} /\ r.sock = "closed")
             => r.out \in {"ConnectionError", "ConnectionClosed"}

\* C26: at most one reader task is receiving from the connection, and
\* nothing else is: no send_request and no readiness wait is blocked in
\* recv() on the socket.
C26_OnlyReaderTasksReceive ==
    /\ Cardinality({h \in handlers : reader[h] = "running"}) <= 1
    /\ waiter = 0

C29_NavigationErrorIsDistinct ==
    \A a, b \in nav_returns :
        (a.fails /\ ~b.fails /\ b.line \in {57, 69, 105})
        => a.outcome # b.outcome

\* C30: when wait_for_page_dom_load has returned, the overall timeout has
\* elapsed or no tracked event has been read for inactivity_timeout.
C30_ReturnsOnlyOnExitCondition ==
    dom_pc = "returned" =>
        (dom_expired \/ quiet_tracked >= InactivityTicks)

\* C31: every call of wait_for_page_dom_load returns, whatever frames the
\* peer sends and whether or not the connection has failed.
C31_DomWaitTerminates ==
    (dom_pc \in {"top", "recv"}) ~> (dom_pc = "returned")

\* A call returned at the overall timeout (line 130) on a connection that
\* had failed, after it had read a frame that started loading.
C31_Witness ==
    /\ dom_pc = "returned"
    /\ dom_broke_at = 130
    /\ ws_closed
    /\ dom_frames # {}

\* The frame ids of a Page.frameStartedLoading in `seen` that no later
\* Page.frameStoppedLoading or Page.frameDetached of `seen` names.
StartedNotStopped(seen) ==
    {id \in FrameIds :
        \E i \in 1..Len(seen) :
            /\ seen[i] = [name |-> "Page.frameStartedLoading", frameId |-> id]
            /\ \A j \in (i + 1)..Len(seen) :
                  ~(/\ seen[j].frameId = id
                    /\ seen[j].name \in {"Page.frameStoppedLoading",
                                          "Page.frameDetached"})}

\* C32: while a wait runs, its loading-frame set is the set of frame ids
\* it has seen start loading and not since stop loading or detach; the set
\* is empty when the wait starts, and a stop or detach of a frame that is
\* not in the set leaves the set as it was.
C32_LoadingSetIsStartedNotStopped ==
    /\ [](ls_wait \in PageWaits => ls_frames = StartedNotStopped(ls_seen))
    /\ [][(ls_wait = "idle" /\ ls_wait' \in PageWaits) => ls_frames' = {}]_vars
    /\ [][(/\ ls_wait \in PageWaits
            /\ Len(ls_seen') = Len(ls_seen) + 1
            /\ ls_seen'[Len(ls_seen')].name \in {"Page.frameStoppedLoading",
                                                  "Page.frameDetached"}
            /\ ls_seen'[Len(ls_seen')].frameId \notin ls_frames)
           => ls_frames' = ls_frames]_vars

\* The DOM-stability wait has read a start of frame A, a stop of frame B,
\* which was not loading, and a start of frame B: both are loading.
C32_Witness ==
    /\ ls_wait = "dom"
    /\ ls_seen = <<[name |-> "Page.frameStartedLoading", frameId |-> "A"],
                   [name |-> "Page.frameStoppedLoading", frameId |-> "B"],
                   [name |-> "Page.frameStartedLoading", frameId |-> "B"]>>
    /\ ls_frames = {"A", "B"}

\* C33: the pending-request table holds only ids of send_command calls
\* that are still suspended: the id of a call that has ended, however it
\* ended, is not in the table.
C33_PendingOnlySuspendedCalls ==
    \A c \in sc_pending : sc_calls[c].pc \in {"send", "wait"}

\* C34: a reply read while its call is still suspended in send_command,
\* at the send of its frame or at the wait for its future, finds the id of
\* the call in the pending table.
C34_ReplyFindsItsRegistration ==
    (sc_last.called /\ sc_last.pc \in {"send", "wait"}) => sc_last.had

\* A reply was read while its call was still suspended in the send of its
\* frame, and it found the id registered.
C34_Witness ==
    /\ sc_last.called
    /\ sc_last.pc = "send"
    /\ sc_last.had
    /\ sc_calls[sc_last.id].fut = "result"

\* C35: a navigate on a page that fires its load event has returned the
\* reply to its command, its wait having read every notification, and the
\* wait has not run into the overall timeout.
C35_NoNotificationLostToCommand ==
    nl_pc = "done" =>
        (nl_resp.kind = "reply" /\ nl_wait.line \in {69, 105})

\* What click_element has done after the highlight of line 560.
ClickTrace == SelectSeq(ck_sent, LAMBDA c : c # "DOM.resolveNode")

\* C36: when click_element has sent mouseReleased it has sent mouseMoved,
\* mousePressed and mouseReleased, in this order and with nothing between
\* them, and when it has then returned, the DOM-stability wait of
\* PageHandler is the one thing it ran after them.
C36_MouseEventsThenWait ==
    /\ ck_pc = "wait" =>
          ClickTrace = <<"mouseMoved", "mousePressed", "mouseReleased">>
    /\ (ck_pc = "done" /\ Len(ClickTrace) >= 3) =>
          ClickTrace = <<"mouseMoved", "mousePressed", "mouseReleased",
                         "PageHandler.wait_for_page_dom_load">>

\* C37: for a content quad of four corners the click point is the
\* midpoint of the x of corners 1 and 3 and the midpoint of the y of
\* corners 1 and 4.
C37_CenterIsMidpointOfCorners ==
    (gc_result.kind = "pair" /\ Len(gc_model.content) = 8)
    => /\ gc_result.x = (gc_model.content[1] + gc_model.content[5]) \div 2
       /\ gc_result.y = (gc_model.content[2] + gc_model.content[8]) \div 2

RECURSIVE CharEvents(_)
CharEvents(text) ==
    IF text = <<>> THEN <<>>
    ELSE <<KeyEvent("keyDown", Head(text), 0),
           KeyEvent("keyUp", Head(text), 0)>> \o CharEvents(Tail(text))

EmulationCommands(text) ==
    <<FocusCommand, KeyEvent("keyDown", "a", 2), KeyEvent("keyUp", "a", 2),
      KeyEvent("keyDown", "Backspace", 0), KeyEvent("keyUp", "Backspace", 0)>>
      \o CharEvents(text)

\* C39: what the keyboard emulation has sent is at every moment a prefix
\* of DOM.focus, Ctrl+A down and up, Backspace down and up, and down and
\* up of every character of the text in text order; it is all of it, with
\* 4 + 2 * len(text) key events, when the emulation has succeeded; and
\* once a command has raised the emulation has failed and nothing more is
\* sent.
C39_EmulationSendsInOrder ==
    /\ [](/\ Len(in_sent) <= Len(EmulationCommands(in_text))
          /\ in_sent = SubSeq(EmulationCommands(in_text), 1, Len(in_sent))
          /\ in_input = "ok" =>
                /\ in_sent = EmulationCommands(in_text)
                /\ Len(SelectSeq(in_sent,
                       LAMBDA c : c.method = "Input.dispatchKeyEvent"))
                     = 4 + 2 * Len(in_text)
          /\ in_input = "failed" =>
                Len(in_sent) < Len(EmulationCommands(in_text)))
    /\ [][(in_input' = "failed" /\ in_input # "failed") =>
            (in_sent' = in_sent /\ in_pc' = "done")]_vars
    /\ [][(in_input = "failed" /\ in_calls' = in_calls) =>
            in_sent' = in_sent]_vars

\* The emulation typed a text of two characters and succeeded.
C39_Witness ==
    /\ in_input = "ok"
    /\ in_text = <<"a", "b">>
    /\ Len(in_sent) = 9

\* C40: a get_current_url that returned a url returned the url of the
\* history entry at currentIndex, the page displayed when it was called.
C40_CurrentUrlIsDisplayedPage ==
    (hs_got.called /\ hs_got.ret \notin {"raised", "None"})
    => hs_got.ret = hs_got.shown

====
